---- MODULE Spec2Model ----
(***************************************************************************)
(* Model of the remote filesystem virtualization and tree-transaction      *)
(* engine of webdav-markdown-manager:                                      *)
(*   - MyWebDAVClient            (src/src/treeDataProvider.ts 1901-2339)   *)
(*   - WebDAVTreeDataProvider    (src/src/treeDataProvider.ts 27-1878)     *)
(*   - WebDAVFileSystemProvider  (src/unnamed/part_005)                    *)
(*                                                                         *)
(* A path is the sequence of its segments ("/" is <<>>), a name is the     *)
(* sequence of its characters, file content is a sequence of bytes and a   *)
(* text is a sequence of characters.  The remote store (the server behind  *)
(* the `webdav` library client) is a function from the existing paths to   *)
(* their entries.                                                          *)
(*                                                                         *)
(* The handlers are async functions on one thread: a handler runs until it *)
(* awaits a remote call or a prompt, and goes on in a later turn of the    *)
(* event loop, when the answer has arrived.  Nothing keeps a second        *)
(* handler from being called meanwhile.  A handler in flight is a frame of *)
(* `running`; a step of the model is one of                                *)
(*   - a handler is called and runs up to its first await (the action      *)
(*     named after the handler), or to its end when it awaits nothing;     *)
(*   - the remote store carries out the call a frame waits for             *)
(*     (StoreActs), or the call fails without an answer (CallFails,        *)
(*     SocketFails), or the 30 s timer of a connect fires                  *)
(*     (ConnectTimesOut, TimesOut);                                        *)
(*   - the answer arrives and the handler runs on to its next await or to  *)
(*     its end (Resumes); the user answers a prompt (ConfirmAnswers,       *)
(*     Entering, Picking) or the settings are read (ConfigAnswers).        *)
(* A connect that finds the promise of another in the field awaits it; it  *)
(* goes on right after the handler that settles the promise, before any    *)
(* other answer is handled.                                                *)
(* A handler is written as an operator on a world w that holds the memory  *)
(* of the program (w.mem) and the answers its awaits have had so far; the  *)
(* operator runs the handler from its start through those answers, taking  *)
(* the memory as it was found at each resumption, and stops at the first   *)
(* await that has no answer yet.                                           *)
(***************************************************************************)
EXTENDS Integers, Sequences, FiniteSets, TLC

VARIABLES
    fs,               \* the remote store: path -> [kind, content]
    connection,       \* MyWebDAVClient.connection (NoConnection when null)
    connectionPromise,\* MyWebDAVClient.connectionPromise (NoPromise when null)
    calls,            \* the calls of MyWebDAVClient.connect made so far
    attempts,         \* number of connectInternal runs started
    isConnected,      \* WebDAVTreeDataProvider.isConnected
    isConnecting,     \* WebDAVTreeDataProvider.isConnecting
    currentBasePath,  \* WebDAVTreeDataProvider.currentBasePath
    clipboard,        \* WebDAVTreeDataProvider.clipboard (NoClipboard when null)
    virtualFiles,     \* WebDAVFileSystemProvider.virtualFiles: handle -> VirtualFile
    orphans,          \* VirtualFile objects no longer in the Map, still held by a handler
    now,              \* the clock read by Date.now()
    pastes,           \* number of pastes that got past the clipboard checks
    docSteps,         \* number of operations called
    running,          \* the handlers in flight
    last              \* what the last step did

vars == <<fs, connection, connectionPromise, calls, attempts, isConnected, isConnecting,
          currentBasePath, clipboard, virtualFiles, orphans, now, pastes, docSteps,
          running, last>>

-----------------------------------------------------------------------------
(* Bounds of the model *)

\* pastes that get past the clipboard checks in one behaviour
MaxPastes == 1
\* entries of the remote store
MaxNodes == 10
\* handlers in flight at once where the handlers are called one after another
MaxRunning == 1
\* handlers in flight at once where the calls overlap (RaceSpec, TreeRaceSpec)
MaxRacing == 2
\* remote calls of one handler that fail or are refused
MaxFaults == 2
\* the clock, in expiry spans and in milliseconds past a span
MaxSpans == 1
MaxDrift == 1
\* handler calls that are counted (document handlers: that are made)
MaxDocSteps == 3
\* calls of MyWebDAVClient.connect
MaxCalls == 3
\* characters of the paths given to PathUtils
MaxPathLen == 4
MaxBaseLen == 2
\* calls of createFile, createFolder and uploadFile
MaxCreates == 2
\* calls of the methods of MyWebDAVClient
MaxClientCalls == 2

-----------------------------------------------------------------------------
(* Names, paths, contents.  The text of a path is '/' followed by its      *)
(* segments joined with '/'; the root '/' is the empty sequence.  A       *)
(* segment is empty where the text has two slashes in a row or ends in a  *)
(* slash.                                                                  *)

NameA == <<"a">>
NameB == <<"b">>
NameH == <<".", "h">>
Name404 == <<"4", "0", "4">>
Names == {NameA, NameB, NameH}

Root == <<>>

\* The text alphabet and its UTF-8 encoding: the letters h and i, and the
\* characters U+FEFB..U+FFFF whose three bytes are 0xEF and two of 0xBB,
\* 0xBD, 0xBF; among them the byte order mark U+FEFF (EF BB BF) and the
\* replacement character U+FFFD (EF BF BD).  The byte 0xFF is in no
\* encoding.
CharOf == (104 :> "h" @@ 105 :> "i")
ByteOf == ("h" :> <<104>> @@ "i" :> <<105>>
           @@ "FEFB" :> <<239, 187, 187>> @@ "FEFD" :> <<239, 187, 189>>
           @@ "FEFF" :> <<239, 187, 191>> @@ "FF7B" :> <<239, 189, 187>>
           @@ "FF7D" :> <<239, 189, 189>> @@ "FF7F" :> <<239, 189, 191>>
           @@ "FFFB" :> <<239, 191, 187>> @@ "FFFD" :> <<239, 191, 189>>
           @@ "FFFF" :> <<239, 191, 191>>)
ByteOrderMark == "FEFF"
Replacement == "FFFD"
\* 0x80..0xBF
IsContinuation(b) == b \in 128..191
\* the character of the three bytes 0xEF, x, y
CharOf3(x, y) == CHOOSE c \in DOMAIN ByteOf : ByteOf[c] = <<239, x, y>>

RECURSIVE Encode(_)
\* TextEncoder.encode / the body of a text put
Encode(text) == IF Len(text) = 0 THEN <<>> ELSE ByteOf[Head(text)] \o Encode(Tail(text))

RECURSIVE DecodeBytes(_)
\* the UTF-8 decoder: a byte sequence that is no encoding gives the
\* replacement character, once for a lead byte with the continuation bytes
\* that can follow it, once for every other byte
DecodeBytes(bytes) ==
    IF Len(bytes) = 0 THEN <<>>
    ELSE IF Head(bytes) \in DOMAIN CharOf
    THEN <<CharOf[Head(bytes)]>> \o DecodeBytes(Tail(bytes))
    ELSE IF Head(bytes) = 239 /\ Len(bytes) >= 2 /\ IsContinuation(bytes[2])
    THEN IF Len(bytes) >= 3 /\ IsContinuation(bytes[3])
         THEN <<CharOf3(bytes[2], bytes[3])>> \o DecodeBytes(SubSeq(bytes, 4, Len(bytes)))
         ELSE <<Replacement>> \o DecodeBytes(SubSeq(bytes, 3, Len(bytes)))
    ELSE <<Replacement>> \o DecodeBytes(Tail(bytes))
\* TextDecoder.decode / the body of a text get: the bytes are decoded as
\* UTF-8 and a leading byte order mark is dropped
Decode(bytes) ==
    IF Len(DecodeBytes(bytes)) > 0 /\ Head(DecodeBytes(bytes)) = ByteOrderMark
    THEN Tail(DecodeBytes(bytes))
    ELSE DecodeBytes(bytes)
\* the bytes are the encoding of a text without a leading byte order mark
IsText(bytes) == Encode(Decode(bytes)) = bytes

Text0 == <<>>
Text1 == <<"h">>
Text2 == <<"h", "i">>
Texts == {Text0, Text1, Text2}
\* a file that is no UTF-8 text, and a text file that starts with a byte order mark
Bin1 == <<255>>
Marked1 == <<239, 187, 191, 104>>

Dir == [kind |-> "directory", content |-> <<>>]
File(bytes) == [kind |-> "file", content |-> bytes]

\* basename.startsWith('.')
IsHidden(name) == Len(name) > 0 /\ name[1] = "."

IsPrefix(p, q) == Len(p) <= Len(q) /\ SubSeq(q, 1, Len(p)) = p
\* q lies below p
Below(q, p) == Len(p) < Len(q) /\ SubSeq(q, 1, Len(p)) = p
\* q.startsWith(p + '/'): the text of the root is '/', so that p + '/' is
\* '//' for the root, which starts the paths whose first segment is empty
StartsWithDir(q, p) ==
    IF p = Root THEN Len(q) >= 2 /\ q[1] = <<>> ELSE Below(q, p)

\* the place of the last segment of p that is not empty, 0 when there is
\* none: the slashes at the end of a path do not count
LastSegment(p) ==
    IF \E k \in 1..Len(p) : p[k] # <<>>
    THEN CHOOSE k \in 1..Len(p) : p[k] # <<>> /\ \A j \in (k + 1)..Len(p) : p[j] = <<>>
    ELSE 0
\* path.dirname: the text before the slash in front of the last segment;
\* '/' when that slash is the first character, '//' when it is the second
Dirname(p) ==
    IF LastSegment(p) <= 1 THEN Root
    ELSE IF LastSegment(p) = 2 /\ p[1] = <<>> THEN <<<<>>, <<>>>>
    ELSE SubSeq(p, 1, LastSegment(p) - 1)
\* path.basename: the last segment, the slashes at the end left out
Basename(p) == IF LastSegment(p) = 0 THEN <<>> ELSE p[LastSegment(p)]
\* parent === '/' ? `/${name}` : `${parent}/${name}`; '/' with the empty
\* name is '/' again, a longer parent with the empty name ends in a slash
JoinPath(parent, name) ==
    IF parent = Root THEN (IF name = <<>> THEN Root ELSE <<name>>)
    ELSE Append(parent, name)
\* `${parent}/${name}`: '/' gives '//name'
Concat(parent, name) ==
    IF parent = Root THEN <<<<>>, name>> ELSE Append(parent, name)
\* the path as the library and the server resolve it: empty segments (doubled
\* and trailing slashes) fall away
Clean(p) == SelectSeq(p, LAMBDA s : s # <<>>)

\* the entries at or under p, keyed by their path relative to p
Subtree(f, p) ==
    [r \in {SubSeq(q, Len(p) + 1, Len(q)) : q \in {x \in DOMAIN f : IsPrefix(p, x)}}
        |-> f[p \o r]]
\* the same without the entries that have a hidden name below p
VisibleSubtree(f, p) ==
    LET t == Subtree(f, p)
    IN  [r \in {x \in DOMAIN t : \A i \in 1..Len(x) : ~IsHidden(x[i])} |-> t[r]]

\* the kind of the entry at p
KindAt(f, p) == IF p \in DOMAIN f THEN f[p].kind ELSE "none"

Restrict(f, S) == [x \in S |-> f[x]]
Without(f, p) == Restrict(f, {x \in DOMAIN f : ~IsPrefix(p, x)})
With(f, p, e) == [x \in DOMAIN f \cup {p} |-> IF x = p THEN e ELSE f[x]]

-----------------------------------------------------------------------------
(* Errors.  has404 says whether error.message includes '404' or 'Not       *)
(* Found', timeout whether it includes 'timeout' or '超时', auth whether it *)
(* includes '401' or '认证失败'; status is the HTTP status the library       *)
(* attaches (-1 when the error carries none); word is the one of          *)
(* 'timeout', 'ECONNREFUSED' and 'ENOTFOUND' that error.message includes,   *)
(* code is error.code.                                                     *)

Name401 == <<"4", "0", "1">>
\* whether the text of a path includes the name (the names of the model
\* hold no blank, so none includes 'Not Found')
Mentions(p, name) ==
    \E i \in 1..Len(p) :
        \E k \in 1..(Len(p[i]) - Len(name) + 1) : SubSeq(p[i], k, k + Len(name) - 1) = name
Mentions404(p) == Mentions(p, Name404)

NoError ==
    [ok |-> TRUE, status |-> -1, has404 |-> FALSE, timeout |-> FALSE, auth |-> FALSE,
     word |-> "none", code |-> "none"]
\* the library's "Invalid response: <status> <text>"
HttpError(s) ==
    [ok |-> FALSE, status |-> s, has404 |-> s = 404, timeout |-> FALSE, auth |-> s = 401,
     word |-> "none", code |-> "none"]
\* new Error('<message of this program>')
PlainError ==
    [ok |-> FALSE, status |-> -1, has404 |-> FALSE, timeout |-> FALSE, auth |-> FALSE,
     word |-> "none", code |-> "none"]
\* new Error(`<message>: ${path}`)
PathError(p) ==
    [PlainError EXCEPT !.has404 = Mentions404(p), !.auth = Mentions(p, Name401)]
\* the call did not answer: the timer of the race fires ('获取文件状态超时'), or
\* the socket fails; the error carries no status
NetError ==
    [ok |-> FALSE, status |-> -1, has404 |-> FALSE, timeout |-> TRUE, auth |-> FALSE,
     word |-> "none", code |-> "none"]
\* the socket fails: the error of the library has a code, which its message
\* names ('connect ECONNREFUSED ...', 'getaddrinfo ENOTFOUND ...', 'connect
\* ETIMEDOUT ...'), or the message says 'timeout of ... exceeded' or
\* 'certificate has expired'
SocketErrors == {"timeout", "ECONNREFUSED", "ENOTFOUND", "ETIMEDOUT", "CERT_HAS_EXPIRED"}
SocketError(kind) ==
    [PlainError EXCEPT !.timeout = (kind = "timeout"),
                       !.word = IF kind \in {"timeout", "ECONNREFUSED", "ENOTFOUND"}
                                THEN kind ELSE "none",
                       !.code = IF kind = "timeout" THEN "ECONNABORTED" ELSE kind]
\* the 30 s timer of connectInternal has fired before the connection test
\* answered: '连接超时，请检查网络连接或服务器状态'
RaceLost == [PlainError EXCEPT !.timeout = TRUE, !.word = "raceLost"]
\* new Error(`<message>: ${error.message}`)
Wrapped(err) == [err EXCEPT !.ok = FALSE, !.status = -1, !.code = "none"]

-----------------------------------------------------------------------------
(* The protocol collaborator: the server behind the `webdav` library       *)
(* client.  A request is carried out on the store f as it is at that       *)
(* moment; the answer is the store it leaves, an error or NoError, and a   *)
(* value.  deep says whether the server's DELETE removes a non-empty       *)
(* collection, order is the order in which the server lists names.         *)

\* timed says whether the caller races the request against a timer
\* the path of a request is the path the server resolves
Request(op, p, body, format, timed) ==
    [op |-> op, path |-> Clean(p), body |-> body, format |-> format, timed |-> timed]
NoRequest == Request("none", Root, <<>>, "", FALSE)

Served(f, err, val) == [fs |-> f, err |-> err, val |-> val]

Entry(name, kind) == [basename |-> name, type |-> kind]
NoEntry == Entry(<<>>, "none")

\* the strict ancestors of a path, the root included
Above(p) == {SubSeq(p, 1, k) : k \in 0..(Len(p) - 1)}
Ancestors(p) == {SubSeq(p, 1, k) : k \in 0..Len(p)}

RECURSIVE SortNames(_, _)
SortNames(S, order) ==
    IF Len(order) = 0 THEN <<>>
    ELSE (IF Head(order) \in S THEN <<Head(order)>> ELSE <<>>)
         \o SortNames(S, Tail(order))

ChildNames(f, p) == {q[Len(q)] : q \in {x \in DOMAIN f : Len(x) = Len(p) + 1 /\ IsPrefix(p, x)}}

\* PROPFIND of one entry
ServeStat(f, p) ==
    IF p \in DOMAIN f THEN Served(f, NoError, Entry(Basename(p), f[p].kind))
    ELSE Served(f, HttpError(404), NoEntry)

\* PROPFIND of the members of a collection
ServeList(f, p, order) ==
    IF p \notin DOMAIN f THEN Served(f, HttpError(404), <<>>)
    ELSE IF f[p].kind = "file" THEN Served(f, NoError, <<>>)
    ELSE LET names == SortNames(ChildNames(f, p), order)
         IN  Served(f, NoError,
                    [i \in 1..Len(names) |-> Entry(names[i], f[Append(p, names[i])].kind)])

\* GET: the bytes of the file in the binary format, their decoding in the
\* text format, which never fails
ServeGet(f, p, format) ==
    IF p \notin DOMAIN f THEN Served(f, HttpError(404), <<>>)
    ELSE IF f[p].kind = "directory" THEN Served(f, HttpError(405), <<>>)
    ELSE IF format = "binary" THEN Served(f, NoError, f[p].content)
    ELSE Served(f, NoError, Decode(f[p].content))

\* PUT
ServePut(f, p, bytes) ==
    IF Len(p) = 0 \/ Dirname(p) \notin DOMAIN f THEN Served(f, HttpError(409), <<>>)
    ELSE IF f[Dirname(p)].kind = "file" THEN Served(f, HttpError(409), <<>>)
    ELSE IF p \in DOMAIN f /\ f[p].kind = "directory" THEN Served(f, HttpError(405), <<>>)
    ELSE Served(With(f, p, File(bytes)), NoError, <<>>)

\* DELETE: on a non-empty collection the server either removes the whole
\* collection (deep) or refuses
ServeDelete(f, p, deep) ==
    IF p \notin DOMAIN f THEN Served(f, HttpError(404), <<>>)
    ELSE IF Len(p) = 0 THEN Served(f, HttpError(403), <<>>)
    ELSE IF ChildNames(f, p) # {} /\ ~deep THEN Served(f, HttpError(409), <<>>)
    ELSE Served(Without(f, p), NoError, <<>>)

\* the MKCOLs of createDirectory(path, { recursive: true })
ServeMkdir(f, p) ==
    IF \E a \in Ancestors(p) : a \in DOMAIN f /\ f[a].kind = "file"
    THEN Served(f, HttpError(405), <<>>)
    ELSE Served([x \in DOMAIN f \cup Ancestors(p) |-> IF x \in DOMAIN f THEN f[x] ELSE Dir],
                NoError, <<>>)

\* one MKCOL
ServeMkcol(f, p) ==
    IF p \in DOMAIN f THEN Served(f, HttpError(405), <<>>)
    ELSE IF Dirname(p) \notin DOMAIN f \/ f[Dirname(p)].kind = "file"
         THEN Served(f, HttpError(409), <<>>)
    ELSE Served(With(f, p, Dir), NoError, <<>>)

\* the value of a request that has no answer
Unanswered(req) ==
    IF req.op = "stat" THEN NoEntry
    ELSE IF req.op = "prompt" /\ req.format = "confirm" THEN FALSE
    ELSE IF req.op = "prompt" /\ req.format = "config"
    THEN [serverUrl |-> <<>>, username |-> <<>>, password |-> <<>>]
    ELSE <<>>

\* the server refuses the credentials
Denied(f, req) == Served(f, HttpError(401), Unanswered(req))

\* the request is carried out on the store f
Serve(f, req, denied, deep, order) ==
    IF denied THEN Denied(f, req)
    ELSE CASE req.op = "stat" -> ServeStat(f, req.path)
           [] req.op = "list" -> ServeList(f, req.path, order)
           [] req.op = "get" -> ServeGet(f, req.path, req.format)
           [] req.op = "put" -> ServePut(f, req.path, req.body)
           [] req.op = "delete" -> ServeDelete(f, req.path, deep)
           [] req.op = "mkdir" -> ServeMkdir(f, req.path)
           [] req.op = "mkcol" -> ServeMkcol(f, req.path)

\* whether the answer depends on how the server treats non-empty collections
DeepMatters(f, req) == req.op = "delete" /\ ChildNames(f, req.path) # {}
\* whether the answer depends on the order in which the server lists names
OrderMatters(f, req) == req.op = "list" /\ Cardinality(ChildNames(f, req.path)) > 1

\* what is kept of a call: what the store held at the path when the call was
\* carried out (or was given up), whether it was answered, and the status of
\* the answer
Sent(f, req, answered, err) ==
    [op |-> req.op, path |-> req.path, answered |-> answered, status |-> err.status,
     kind |-> KindAt(f, req.path),
     parent |-> IF Len(req.path) = 0 THEN "directory"
                ELSE KindAt(f, SubSeq(req.path, 1, Len(req.path) - 1)),
     underFile |-> \E a \in Above(req.path) : KindAt(f, a) = "file",
     empty |-> \A q \in DOMAIN f :
                   ~(Len(q) > Len(req.path) /\ SubSeq(q, 1, Len(req.path)) = req.path)]
\* a note in the log of a handler
Noted(op, p, ok) ==
    [op |-> op, path |-> p, answered |-> ok, status |-> -1, kind |-> "none",
     parent |-> "none", underFile |-> FALSE, empty |-> TRUE]

\* the answer of a request as the handler gets it
Reply(err, val, sent) == [err |-> err, val |-> val, sent |-> sent]

-----------------------------------------------------------------------------
(* The memory of the program and the run of a handler *)

\* no promise in the field connectionPromise
NoArgs == [serverUrl |-> <<>>, username |-> <<>>, password |-> <<>>, basePath |-> Root]
NoPromise == [id |-> 0, args |-> NoArgs, outcome |-> "none"]

Memory ==
    [connection |-> connection, connectionPromise |-> connectionPromise,
     isConnected |-> isConnected, isConnecting |-> isConnecting,
     currentBasePath |-> currentBasePath, clipboard |-> clipboard,
     virtualFiles |-> virtualFiles, orphans |-> orphans, now |-> now]

\* the memory as the handler op finds it: connectInternal run as a handler
\* of its own never reads the field connectionPromise, which connect keeps
Found(op) ==
    IF op \in {"clientConnect", "testClientConnect"}
    THEN [Memory EXCEPT !.connectionPromise = NoPromise]
    ELSE Memory

\* the saveFile of a document is called when the openFile of the document
\* has just ended, having run with no other handler in flight
FollowsOpen(op, args) ==
    /\ op = "save"
    /\ last.op = "open" /\ last.phase = "ended" /\ last.alone /\ last.outcome = "ok"
    /\ last.val.uri = args.uri

\* a handler in flight: the call and its arguments, the store as it was at
\* the call, the answers its awaits have had, the memory as the handler found
\* it at the call and at each resumption, the request it waits for, whether
\* no other handler has run since the call, and whether it is a save that
\* directly follows the open of its document
Frame(op, args) ==
    [op |-> op, args |-> args, fs |-> fs, answers |-> <<>>, mems |-> <<Found(op)>>,
     request |-> NoRequest, phase |-> "called", alone |-> running = <<>>,
     afterOpen |-> FollowsOpen(op, args)]

\* the world a handler starts in:
\*   n, muts, gets   the remote calls, mutating calls and fetches answered
\*   k               the awaits answered
\*   log             the calls answered and the notes taken
\*   blocked         whether an await without an answer was reached
\*   request         the request of that await
\*   mem             the memory of the program
Run(frame) ==
    [n |-> 0, muts |-> 0, gets |-> 0, k |-> 0, log |-> <<>>, answers |-> frame.answers,
     mems |-> frame.mems, blocked |-> FALSE, request |-> NoRequest, mem |-> frame.mems[1]]

Res(w, err, val) == [w |-> w, err |-> err, val |-> val]

\* const r = await call; rest: Awaited([r \in {call} |-> rest]) is what the
\* rest of the handler gives for the result r of the call, which is made once
Awaited(rest) == CHOOSE out \in {g[CHOOSE r \in DOMAIN g : TRUE] : g \in {rest}} : TRUE

IsPrompt(req) == req.op = "prompt"
\* await this.connectionPromise, of a connect that finds a promise in the
\* field
JoinRequest == Request("join", Root, <<>>, "", FALSE)
\* a request to the server
IsRemote(req) == req.op \notin {"prompt", "join"}
Mutating(req) == req.op \in {"put", "delete", "mkdir", "mkcol"}

\* the world after the await k + 1 was answered
Answered(w, req) ==
    [w EXCEPT !.k = @ + 1,
              !.n = @ + (IF IsRemote(req) THEN 1 ELSE 0),
              !.muts = @ + (IF Mutating(req) THEN 1 ELSE 0),
              !.gets = @ + (IF req.op = "get" THEN 1 ELSE 0),
              !.log = IF IsRemote(req) THEN Append(@, w.answers[w.k + 1].sent) ELSE @,
              !.mem = w.mems[w.k + 2]]

\* await of the request: the answer it had, with the memory as it was when
\* the handler resumed; the handler stops here when there is no answer yet
Await(w, req) ==
    IF w.blocked THEN Res(w, PlainError, Unanswered(req))
    ELSE IF w.k < Len(w.answers)
    THEN Res(Answered(w, req), w.answers[w.k + 1].err, w.answers[w.k + 1].val)
    ELSE Res([w EXCEPT !.blocked = TRUE, !.request = req], PlainError, Unanswered(req))

\* an assignment to a field of the program
Update(w, mem) == IF w.blocked THEN w ELSE [w EXCEPT !.mem = mem]
\* a note in the log
Note(w, op, p, ok) == IF w.blocked THEN w ELSE [w EXCEPT !.log = Append(@, Noted(op, p, ok))]

\* await vscode.window.show...: the choice of the user
Prompt(kind) == Request("prompt", Root, <<>>, kind, FALSE)
Ask(w, kind) == Await(w, Prompt(kind))

\* the calls of the library client
LibStat(w, p, timed) == Await(w, Request("stat", p, <<>>, "", timed))
LibList(w, p, timed) == Await(w, Request("list", p, <<>>, "", timed))
LibGet(w, p, format) == Await(w, Request("get", p, <<>>, format, TRUE))
LibPut(w, p, bytes) == Await(w, Request("put", p, bytes, "", FALSE))
LibDelete(w, p) == Await(w, Request("delete", p, <<>>, "", FALSE))
LibMkdir(w, p) == Await(w, Request("mkdir", p, <<>>, "", FALSE))
LibMkcol(w, p) == Await(w, Request("mkcol", p, <<>>, "", FALSE))

ExpiryMs == 600000

\* a server address is the sequence of its parts: a scheme, host names,
\* slashes and blanks
ServerUrl == <<"http://", "h">>
UrlNoScheme == <<"ftp://", "h">>

\* the settings loadConfig returns, the base path apart: the server address,
\* the user and the password
Settings(url, user, password) == [serverUrl |-> url, username |-> user, password |-> password]
NoSettings == Settings(<<>>, <<>>, <<>>)
\* the settings the user may have made: complete ones, an address that is
\* no http address, no password, no address
SettingsMade ==
    {Settings(ServerUrl, <<"u">>, <<"p">>), Settings(UrlNoScheme, <<"u">>, <<"p">>),
     Settings(ServerUrl, <<"u">>, <<>>), Settings(<<>>, <<"u">>, <<"p">>)}
\* the arguments of connect made of the settings and the base path bp
WithBasePath(s, bp) ==
    [serverUrl |-> s.serverUrl, username |-> s.username, password |-> s.password,
     basePath |-> bp]

\* MyWebDAVClient.connection: null, or the session of a server and a base path
NoConnection == [connected |-> FALSE, basePath |-> Root, serverUrl |-> <<>>]
Session(url, bp) == [connected |-> TRUE, basePath |-> bp, serverUrl |-> url]
\* the session of the configured server
Connection(bp) == Session(ServerUrl, bp)

\* MyWebDAVClient.connectionPromise: null, or the promise connectInternal
\* returned, with the arguments the attempt was started with; the promise
\* is pending, or it has settled with an outcome (true or an error) and
\* stays in the field until the finally block of connect runs
PromiseOf(id, args, outcome) == [id |-> id, args |-> args, outcome |-> outcome]
\* the promise in the field has settled: the continuations that await it
\* are queued and run before any timer or answer is handled
Unreleased(promise) == promise.id # 0 /\ promise.outcome # "pending"
ClientIdle == connectionPromise = NoPromise /\ calls = <<>> /\ attempts = 0

\* a node of the tree view made of a listed entry: WebDAVTreeItem with its
\* path, type, label and isSpecialItem
Item(p, kind) ==
    [path |-> p, type |-> kind, label |-> Basename(p), isSpecialItem |-> FALSE]
\* the node shown for a base path whose listing is empty
EmptyLabel == <<"empty">>
EmptyItem(bp) ==
    [path |-> bp, type |-> "directory", label |-> EmptyLabel, isSpecialItem |-> FALSE]
\* a node that stands for a state of the view (id 'connect', 'auth-error',
\* 'error', 'error-child'), not for an entry
SpecialItem(id, p) ==
    [path |-> p, type |-> "directory", label |-> <<id>>, isSpecialItem |-> TRUE]
NoClipboard ==
    [held |-> FALSE, item |-> Item(Root, "none"), operation |-> "none",
     sourcePath |-> Root, timestamp |-> 0]
Holding(item, operation, t) ==
    [held |-> TRUE, item |-> item, operation |-> operation,
     sourcePath |-> item.path, timestamp |-> t]

\* an optional paste target: absent, the toolbar's root item, or a tree node
NoTarget == [given |-> FALSE, toolbar |-> FALSE, path |-> Root, type |-> "none"]
ToolbarTarget(bp) == [given |-> TRUE, toolbar |-> TRUE, path |-> bp, type |-> "directory"]
NodeTarget(item) == [given |-> TRUE, toolbar |-> FALSE, path |-> item.path, type |-> item.type]
-----------------------------------------------------------------------------
(* MyWebDAVClient.  Every method reads this.connection when it is entered, *)
(* and again at each library call it makes after an await.                 *)

\* this.connection && this.connection.client
Connected(w) == w.mem.connection.connected

\* new Error('未连接到WebDAV服务器')
NotConnected(w) == Res(w, PlainError, <<>>)
\* this.connection.client of a connection that is null: a TypeError
NoClient(w) == Res(w, PlainError, <<>>)

\* MyWebDAVClient.stat
ClientStat(w, p) ==
    IF ~Connected(w) THEN Res(w, PlainError, NoEntry) ELSE LibStat(w, p, TRUE)

\* the catch block of MyWebDAVClient.getDirectoryContents
ListError(err, p) ==
    IF err.has404 \/ err.status = 404 THEN PathError(p)
    ELSE IF err.auth \/ err.status = 401 THEN [PlainError EXCEPT !.auth = TRUE]
    ELSE IF err.timeout THEN [PlainError EXCEPT !.timeout = TRUE]
    ELSE IF err.code = "ENOTFOUND" THEN PlainError
    ELSE err

\* items.filter(item => !basename.startsWith('.'))
FilterHidden(items) == SelectSeq(items, LAMBDA e : ~IsHidden(e.basename))

\* MyWebDAVClient.getDirectoryContents
ClientList(w, p) ==
    IF ~Connected(w) THEN NotConnected(w)
    ELSE Awaited([r \in {LibList(w, p, TRUE)} |->
             IF r.err.ok THEN Res(r.w, NoError, FilterHidden(r.val))
             ELSE Res(r.w, ListError(r.err, p), <<>>)])

\* MyWebDAVClient.createDirectory
ClientMkdir(w, p) ==
    IF ~Connected(w) THEN NotConnected(w) ELSE LibMkdir(w, p)

\* filePath.replace(/\/+/g, '/'): slashes in a row become one, a slash at
\* the end stays
CollapsePath(p) ==
    IF Len(p) = 0 THEN p ELSE Clean(SubSeq(p, 1, Len(p) - 1)) \o <<p[Len(p)]>>
\* MyWebDAVClient.getParentPath: the text of the collapsed path before its
\* last slash, '/' when that slash is the first character; a path that ends
\* in a slash gives the path without that slash
GetParentPath(p) ==
    IF Len(CollapsePath(p)) <= 1 THEN Root
    ELSE SubSeq(CollapsePath(p), 1, Len(CollapsePath(p)) - 1)

\* the probe of createFile: await this.connection.client.stat(parentPath)
ProbeParent(w, p) ==
    IF GetParentPath(p) = Root THEN Res(w, NoError, NoEntry)
    ELSE LibStat(w, GetParentPath(p), FALSE)

\* MyWebDAVClient.createFile: the parent is probed and created when the probe
\* answers 404, any other probe error is swallowed, then the put is issued
\* through the connection the client holds by then
ClientCreateFile(w, p, text) ==
    IF ~Connected(w) THEN NotConnected(w)
    ELSE Awaited([probe \in {ProbeParent(w, p)} |->
         Awaited([made \in {IF ~probe.err.ok /\ probe.err.status = 404
                            THEN ClientMkdir(probe.w, GetParentPath(p))
                            ELSE Res(probe.w, NoError, <<>>)} |->
             IF ~made.err.ok THEN made
             ELSE IF ~Connected(made.w) THEN NoClient(made.w)
             ELSE LibPut(made.w, p, Encode(text))])])

\* the catch block of MyWebDAVClient.getFileContents
GetError(err, p) ==
    IF err.status = 404 THEN PathError(p)
    ELSE IF err.status = 403 THEN PlainError
    ELSE err

\* MyWebDAVClient.getFileContents
ClientGet(w, p, format) ==
    IF ~Connected(w) THEN NotConnected(w)
    ELSE Awaited([r \in {LibGet(w, p, format)} |->
             IF r.err.ok THEN r ELSE Res(r.w, GetError(r.err, p), <<>>)])

\* MyWebDAVClient.deleteFile
ClientDeleteFile(w, p) ==
    IF ~Connected(w) THEN NotConnected(w) ELSE LibDelete(w, p)

RECURSIVE ClientDeleteDirectory(_, _)
RECURSIVE DeleteChildren(_, _, _, _)

\* the for loop of MyWebDAVClient.deleteDirectory, from child i on
DeleteChildren(w, p, items, i) ==
    IF i > Len(items) THEN Res(w, NoError, <<>>)
    ELSE Awaited([r \in {IF items[i].type = "directory"
                         THEN ClientDeleteDirectory(w, JoinPath(p, items[i].basename))
                         ELSE ClientDeleteFile(w, JoinPath(p, items[i].basename))} |->
             IF ~r.err.ok THEN r ELSE DeleteChildren(r.w, p, items, i + 1)])

\* MyWebDAVClient.deleteDirectory
ClientDeleteDirectory(w, p) ==
    IF ~Connected(w) THEN NotConnected(w)
    ELSE Awaited([listed \in {ClientList(w, p)} |->
             IF ~listed.err.ok THEN listed
             ELSE Awaited([emptied \in {DeleteChildren(listed.w, p, listed.val, 1)} |->
                      IF ~emptied.err.ok THEN emptied
                      ELSE IF ~Connected(emptied.w) THEN NoClient(emptied.w)
                      ELSE LibDelete(emptied.w, p)])])


\* a method of MyWebDAVClient called by name
ClientCall(w, method, p, text) ==
    CASE method = "stat" -> ClientStat(w, p)
      [] method = "getDirectoryContents" -> ClientList(w, p)
      [] method = "getFileContents" -> ClientGet(w, p, "text")
      [] method = "createFile" -> ClientCreateFile(w, p, text)
      [] method = "createDirectory" -> ClientMkdir(w, p)
      [] method = "deleteFile" -> ClientDeleteFile(w, p)
      [] method = "deleteDirectory" -> ClientDeleteDirectory(w, p)
-----------------------------------------------------------------------------
(* WebDAVTreeDataProvider: recursive copy / move *)

NoData == [binary |-> FALSE, text |-> <<>>, bytes |-> <<>>]

\* the read step of copyOrMoveFile: text first, binary on failure; val is
\* [binary, text, bytes].  A source that is not found is an empty text for a
\* move and `复制操作失败：源文件不存在: ${sourcePath}` for a copy; any other
\* failure is `无法读取文件内容: ${binaryError.message}`
ReadSource(w, src, operation) ==
    Awaited([t \in {ClientGet(w, src, "text")} |->
        IF t.err.ok
        THEN Res(t.w, NoError, [binary |-> FALSE, text |-> t.val, bytes |-> <<>>])
        ELSE Awaited([b \in {ClientGet(t.w, src, "binary")} |->
                 IF b.err.ok
                 THEN Res(b.w, NoError, [binary |-> TRUE, text |-> <<>>, bytes |-> b.val])
                 ELSE IF b.err.has404
                      THEN IF operation = "cut" THEN Res(b.w, NoError, NoData)
                           ELSE Res(b.w, PathError(src), NoData)
                      ELSE Res(b.w, Wrapped(b.err), NoData)])])

\* the write step of copyOrMoveFile
WriteTarget(w, dst, data) ==
    IF data.binary
    THEN IF ~Connected(w) THEN NoClient(w) ELSE LibPut(w, dst, data.bytes)
    ELSE ClientCreateFile(w, dst, data.text)

\* the delete step of copyOrMoveFile: a not-found source is tolerated
DeleteSource(w, src) ==
    Awaited([d \in {ClientDeleteFile(w, src)} |->
        IF ~d.err.ok /\ d.err.has404 THEN Res(d.w, NoError, <<>>) ELSE d])

\* WebDAVTreeDataProvider.copyOrMoveFile
CopyOrMoveFile(w, src, dst, operation) ==
    Awaited([read \in {ReadSource(w, src, operation)} |->
        IF ~read.err.ok THEN Res(read.w, read.err, <<>>)
        ELSE Awaited([written \in {WriteTarget(read.w, dst, read.val)} |->
                 IF ~written.err.ok THEN written
                 ELSE IF operation = "cut" THEN DeleteSource(written.w, src)
                 ELSE written])])

RECURSIVE CopyOrMoveDirectory(_, _, _, _)
RECURSIVE CopyChildren(_, _, _, _, _, _)

\* the log notes the end of the processing of the child p of a directory:
\* answered says whether it ended without error
Processed(w, p, ok) == Note(w, "child", p, ok)

\* the for loop of copyOrMoveDirectory, from child i on
CopyChildren(w, src, dst, operation, items, i) ==
    IF i > Len(items) THEN Res(w, NoError, <<>>)
    ELSE Awaited([r \in {IF items[i].type = "directory"
                         THEN CopyOrMoveDirectory(w, Concat(src, items[i].basename),
                                                  Concat(dst, items[i].basename), operation)
                         ELSE CopyOrMoveFile(w, Concat(src, items[i].basename),
                                             Concat(dst, items[i].basename), operation)} |->
             IF ~r.err.ok
             THEN Res(Processed(r.w, Concat(src, items[i].basename), FALSE), r.err, r.val)
             ELSE CopyChildren(Processed(r.w, Concat(src, items[i].basename), TRUE),
                               src, dst, operation, items, i + 1)])

\* the final step of copyOrMoveDirectory: a move deletes the source directory
DeleteSourceDirectory(w, src, operation) ==
    IF operation = "cut" THEN ClientDeleteDirectory(w, src) ELSE Res(w, NoError, <<>>)

\* WebDAVTreeDataProvider.copyOrMoveDirectory
CopyOrMoveDirectory(w, src, dst, operation) ==
    Awaited([made \in {ClientMkdir(w, dst)} |->
        IF ~made.err.ok THEN made
        ELSE Awaited([listed \in {ClientList(made.w, src)} |->
                 IF ~listed.err.ok THEN listed
                 ELSE Awaited([copied \in {CopyChildren(listed.w, src, dst, operation,
                                                        listed.val, 1)} |->
                          IF ~copied.err.ok THEN copied
                          ELSE DeleteSourceDirectory(copied.w, src, operation)])])])


-----------------------------------------------------------------------------
(* WebDAVTreeDataProvider.getRemoteFiles: the listing shown by the tree view *)

\* the primary collation weight of a character: punctuation, digits, letters;
\* localeCompare at sensitivity 'base' ignores the case
CollationWeight ==
    ("." :> 0 @@ "0" :> 1 @@ "4" :> 2 @@ "a" :> 3 @@ "A" :> 3 @@ "b" :> 4 @@ "B" :> 4
     @@ "c" :> 5 @@ "h" :> 6 @@ "i" :> 7 @@ "t" :> 8)

RECURSIVE LocaleCompare(_, _)
\* aName.localeCompare(bName, undefined, { sensitivity: 'base' })
LocaleCompare(a, b) ==
    IF Len(a) = 0 /\ Len(b) = 0 THEN 0
    ELSE IF Len(a) = 0 THEN -1
    ELSE IF Len(b) = 0 THEN 1
    ELSE IF CollationWeight[Head(a)] < CollationWeight[Head(b)] THEN -1
    ELSE IF CollationWeight[Head(a)] > CollationWeight[Head(b)] THEN 1
    ELSE LocaleCompare(Tail(a), Tail(b))

\* the comparator of getRemoteFiles: directories first, then by name
CompareItems(a, b) ==
    IF a.type = "directory" /\ b.type # "directory" THEN -1
    ELSE IF a.type # "directory" /\ b.type = "directory" THEN 1
    ELSE LocaleCompare(a.basename, b.basename)

\* one step of the stable sort: x, which came after the items of sorted,
\* goes behind the items that do not sort after it
InsertSorted(sorted, x) ==
    SelectSeq(sorted, LAMBDA e : CompareItems(e, x) <= 0) \o <<x>>
    \o SelectSeq(sorted, LAMBDA e : CompareItems(e, x) > 0)

RECURSIVE SortItems(_)
\* items.sort(comparator): Array.prototype.sort is stable
SortItems(items) ==
    IF Len(items) = 0 THEN <<>>
    ELSE InsertSorted(SortItems(SubSeq(items, 1, Len(items) - 1)), items[Len(items)])

\* the tree item made of a listed entry
TreeItem(path, e) ==
    [label |-> e.basename, type |-> IF e.type = "directory" THEN "directory" ELSE "file",
     path |-> JoinPath(path, e.basename), isSpecialItem |-> FALSE]

\* WebDAVTreeDataProvider.getRemoteFiles
GetRemoteFiles(w, path) ==
    Awaited([listed \in {ClientList(w, path)} |->
        IF ~listed.err.ok THEN listed
        ELSE Awaited([sorted \in {SortItems(listed.val)} |->
                 Res(listed.w, NoError,
                     [i \in 1..Len(sorted) |-> TreeItem(path, sorted[i])])])])

-----------------------------------------------------------------------------
(* WebDAVTreeDataProvider: clipboard, paste, and the other handlers.  A    *)
(* handler reads the fields of the provider (w.mem) as they are when the   *)
(* statement runs: after an await that is the memory the other handlers    *)
(* have left by then.                                                      *)

\* a clipboard that never expires
ExpiryUnchecked(cb, t) == FALSE
\* Date.now() - timestamp > 10 * 60 * 1000
Expired(cb, t) == t - cb.timestamp > ExpiryMs

\* WebDAVTreeDataProvider.getClipboardStatus: the clipboard it leaves
StatusClipboard(cb, t) == IF cb.held /\ Expired(cb, t) THEN NoClipboard ELSE cb
\* WebDAVTreeDataProvider.getClipboardStatus: the value it returns
StatusValue(cb, t) == IF cb.held /\ ~Expired(cb, t) THEN cb.operation ELSE "null"
\* a context update that leaves the clipboard alone
ContextKept(cb, t) == cb
\* WebDAVTreeDataProvider.updateContext
UpdateContext(cb, t) == StatusClipboard(cb, t)

\* this.clipboard = cb; this.updateContext()
SetClipboard(w, cb) == Update(w, [w.mem EXCEPT !.clipboard = UpdateContext(cb, w.mem.now)])
\* this.updateContext()
Context(w) == SetClipboard(w, w.mem.clipboard)

\* the target directory of pasteItem
ResolveTarget(target, bp) ==
    IF ~target.given \/ target.toolbar THEN bp
    ELSE IF target.type = "directory" THEN target.path
    ELSE IF target.type = "file" THEN Dirname(target.path)
    ELSE bp

\* the destination path of pasteItem
PasteDestination(cb, target, bp) ==
    JoinPath(ResolveTarget(target, bp), Basename(cb.sourcePath))

\* sourcePath === newPath
IsSelfPaste(src, dst) == src = dst
\* item.type === 'directory' && newPath.startsWith(sourcePath + '/')
IsIntoOwnSubtree(item, src, dst) == item.type = "directory" /\ StartsWithDir(dst, src)

\* the writes of WebDAVTreeDataProvider.disconnect
Disconnected(mem) ==
    [mem EXCEPT !.isConnected = FALSE, !.currentBasePath = Root, !.connection = NoConnection]

\* the id of the special node the catch block of refresh shows for an error
\* that is not one of the credentials
ErrorNodeId(err) ==
    IF err.has404 THEN "path-error"
    ELSE IF err.word = "timeout" THEN "timeout-error"
    ELSE IF err.word = "ECONNREFUSED" THEN "connection-error"
    ELSE IF err.word = "ENOTFOUND" THEN "dns-error"
    ELSE "error"

\* the catch block of WebDAVTreeDataProvider.refresh: a listing refused for
\* its credentials disconnects, any other failure is only shown; val is the
\* special node the view shows
RefreshFailed(w, err) ==
    IF err.auth
    THEN Res(Note(Update(w, Disconnected(w.mem)), "refresh", Root, FALSE), NoError,
             <<SpecialItem("auth-error", Root)>>)
    ELSE Res(Note(w, "refresh", w.mem.currentBasePath, FALSE), NoError,
             <<SpecialItem(ErrorNodeId(err), Root)>>)

\* WebDAVTreeDataProvider.refresh: the connect prompt when not connected,
\* else one listing of the base path whose failure is absorbed; val is what
\* is assigned to treeItems: the nodes of the listing, or the node that says
\* that the directory is empty, which has the base path as its path
Refresh(w) ==
    IF ~w.mem.isConnected THEN Res(w, NoError, <<SpecialItem("connect", Root)>>)
    ELSE Awaited([listed \in {GetRemoteFiles(w, w.mem.currentBasePath)} |->
             IF ~listed.err.ok THEN RefreshFailed(listed.w, listed.err)
             ELSE IF Len(listed.val) = 0
                  THEN Res(listed.w, NoError, <<EmptyItem(listed.w.mem.currentBasePath)>>)
             ELSE listed])

\* an overwrite that leaves the existing destination in place
ExistingKept(w, dst, exists) == Res(w, NoError, <<>>)
\* the removal of an existing destination after the overwrite was confirmed
RemoveExisting(w, dst, exists) ==
    IF exists.type = "directory" THEN ClientDeleteDirectory(w, dst)
    ELSE ClientDeleteFile(w, dst)

\* the choice of the user in a modal warning: whether the first button
Confirm(w) == Ask(w, "confirm")

\* the existence check of pasteItem (its inner try/catch); val is what was
\* found at the destination and whether the user confirmed the overwrite
Checked(existing, confirm) == [existing |-> existing, confirm |-> confirm]
CheckDestination(w, dst) ==
    Awaited([st \in {ClientStat(w, dst)} |->
        IF st.err.ok
        THEN Awaited([choice \in {Confirm(st.w)} |->
                 IF choice.val # TRUE THEN Res(choice.w, NoError, Checked(st.val.type, FALSE))
                 ELSE Awaited([rm \in {RemoveExisting(choice.w, dst, st.val)} |->
                          IF rm.err.ok \/ rm.err.has404
                          THEN Res(rm.w, NoError, Checked(st.val.type, TRUE))
                          ELSE Res(rm.w, rm.err, Checked(st.val.type, TRUE))])])
        ELSE IF st.err.has404 THEN Res(st.w, NoError, Checked("none", TRUE))
        ELSE Res(st.w, st.err, Checked("none", TRUE))])

\* the copy / move step of pasteItem
Execute(w, item, src, dst, operation) ==
    IF item.type = "directory" THEN CopyOrMoveDirectory(w, src, dst, operation)
    ELSE CopyOrMoveFile(w, src, dst, operation)

\* what a handler has seen: of a paste the clipboard it took, the
\* destination, the kind of the entry found there, the answer to the
\* overwrite prompt, whether the copy / move step was entered, and the time
\* when that step was over
Seen(cb, dst) ==
    [operation |-> cb.operation, kind |-> cb.item.type, src |-> cb.sourcePath, dst |-> dst,
     existing |-> "none", confirm |-> FALSE, executed |-> FALSE, doneAt |-> -1]
Nothing == Seen(NoClipboard, Root)

\* what a handler leaves
Outcome(name, w, val) == [outcome |-> name, w |-> w, val |-> val]

\* the catch block of pasteItem
PasteFailed(w, cb) == IF cb.operation = "cut" THEN SetClipboard(w, NoClipboard) ELSE w
\* the statements of pasteItem after the copy / move step
PasteDone(w, cb) ==
    Refresh(IF cb.operation = "cut" THEN SetClipboard(w, NoClipboard) ELSE Context(w))

\* the try block of pasteItem, entered after the self-reference checks with
\* the clipboard cb the handler took at its start
PasteTry(w, cb, dst) ==
    Awaited([chk \in {CheckDestination(w, dst)} |->
        Awaited([seen \in {[Seen(cb, dst) EXCEPT !.existing = chk.val.existing,
                                                 !.confirm = chk.val.confirm]} |->
            IF ~chk.err.ok THEN Outcome("failed", PasteFailed(chk.w, cb), seen)
            ELSE IF ~chk.val.confirm THEN Outcome("declined", chk.w, seen)
            ELSE Awaited([ex \in {Execute(chk.w, cb.item, cb.sourcePath, dst,
                                          cb.operation)} |->
                     IF ex.err.ok
                     THEN Outcome("done", PasteDone(ex.w, cb).w,
                                  [seen EXCEPT !.executed = TRUE, !.doneAt = ex.w.mem.now])
                     ELSE Outcome("failed", PasteFailed(ex.w, cb),
                                  [seen EXCEPT !.executed = TRUE,
                                               !.doneAt = ex.w.mem.now])])])])

\* pasteItem from its first await on
PasteFrom(w, cb, target) ==
    Awaited([st \in {ClientStat(w, cb.sourcePath)} |->
        Awaited([dst \in {PasteDestination(cb, target, st.w.mem.currentBasePath)} |->
            IF ~st.err.ok
            THEN Outcome("sourceMissing", SetClipboard(st.w, NoClipboard), Seen(cb, dst))
            ELSE IF IsSelfPaste(cb.sourcePath, dst) THEN Outcome("selfPaste", st.w, Seen(cb, dst))
            ELSE IF IsIntoOwnSubtree(cb.item, cb.sourcePath, dst)
                 THEN Outcome("intoSubtree", st.w, Seen(cb, dst))
            ELSE PasteTry(st.w, cb, dst)])])

\* WebDAVTreeDataProvider.pasteItem
PasteItemResult(w, target) ==
    IF ~w.mem.isConnected THEN Outcome("notConnected", w, Seen(w.mem.clipboard, Root))
    ELSE IF ~w.mem.clipboard.held THEN Outcome("empty", w, Seen(w.mem.clipboard, Root))
    ELSE IF Expired(w.mem.clipboard, w.mem.now)
         THEN Outcome("expired", SetClipboard(w, NoClipboard), Seen(w.mem.clipboard, Root))
    ELSE PasteFrom(w, w.mem.clipboard, target)

\* a cut that removes the source at once
CutItemEager(w, item) ==
    IF ~w.mem.isConnected THEN Outcome("notConnected", w, Nothing)
    ELSE Awaited([rm \in {LibDelete(w, item.path)} |->
             Outcome("held", SetClipboard(rm.w, Holding(item, "cut", rm.w.mem.now)), Nothing)])

\* WebDAVTreeDataProvider.cutItem: the clipboard is written when the stat has
\* answered, with the time of that moment
CutItemResult(w, item) ==
    IF ~w.mem.isConnected THEN Outcome("notConnected", w, Nothing)
    ELSE Awaited([st \in {ClientStat(w, item.path)} |->
             IF st.err.ok
             THEN Outcome("held", SetClipboard(st.w, Holding(item, "cut", st.w.mem.now)),
                          Nothing)
             ELSE IF st.err.has404
                  THEN Outcome("missing", SetClipboard(st.w, NoClipboard), Nothing)
             ELSE Outcome("failed", st.w, Nothing)])

\* WebDAVTreeDataProvider.copyItem
CopyItemResult(w, item) ==
    IF ~w.mem.isConnected THEN Outcome("notConnected", w, Nothing)
    ELSE Outcome("held", SetClipboard(w, Holding(item, "copy", w.mem.now)), Nothing)

\* WebDAVTreeDataProvider.clearClipboard
ClearClipboardResult(w) == Outcome("done", SetClipboard(w, NoClipboard), Nothing)

\* WebDAVTreeDataProvider.getClipboardStatus
GetClipboardStatusResult(w) ==
    Outcome(StatusValue(w.mem.clipboard, w.mem.now),
            Update(w, [w.mem EXCEPT !.clipboard = StatusClipboard(@, w.mem.now)]), Nothing)

\* WebDAVTreeDataProvider.disconnect
DisconnectResult(w) == Outcome("done", Update(w, Disconnected(w.mem)), Nothing)

\* WebDAVTreeDataProvider.deleteItem: the prompt comes first; nothing else
\* than the remote tree and the tree view is touched
DeleteItemResult(w, item) ==
    Awaited([choice \in {Confirm(w)} |->
        IF choice.val # TRUE THEN Outcome("declined", choice.w, Nothing)
        ELSE IF ~choice.w.mem.isConnected THEN Outcome("notConnected", choice.w, Nothing)
        ELSE Awaited([rm \in {IF item.type = "directory"
                               THEN ClientDeleteDirectory(choice.w, item.path)
                               ELSE ClientDeleteFile(choice.w, item.path)} |->
                 IF rm.err.ok THEN Outcome("done", Refresh(rm.w).w, Nothing)
                 ELSE Outcome("failed", rm.w, Nothing)])])

\* the text the user enters in an input box, empty when it was dismissed
Input(w) == Ask(w, "input")

\* new Error(`目标路径 "${newName}" 已存在`), thrown inside the try block whose
\* catch lets every error through that mentions '404'
ConflictError(newName) == PathError(<<newName>>)
\* the existence check of renameItem: the error it leaves, if any
CheckNewPath(w, newPath, newName) ==
    Awaited([st \in {ClientStat(w, newPath)} |->
        Awaited([thrown \in {IF st.err.ok THEN ConflictError(newName) ELSE st.err} |->
            IF thrown.has404 THEN Res(st.w, NoError, st.err.ok)
            ELSE Res(st.w, thrown, st.err.ok)])])

\* renameItem after its input box
RenameTo(w, item, newName) ==
    Awaited([chk \in {CheckNewPath(w, JoinPath(Dirname(item.path), newName), newName)} |->
        IF ~chk.err.ok
        THEN Outcome(IF chk.val THEN "conflict" ELSE "failed", chk.w, Nothing)
        ELSE Awaited([mv \in {Execute(chk.w, item, item.path,
                                      JoinPath(Dirname(item.path), newName), "cut")} |->
                 IF mv.err.ok THEN Outcome("done", Refresh(mv.w).w, Nothing)
                 ELSE Outcome("failed", mv.w, Nothing)])])

\* WebDAVTreeDataProvider.renameItem
RenameItemResult(w, item) ==
    IF ~w.mem.isConnected THEN Outcome("notConnected", w, Nothing)
    ELSE Awaited([name \in {Input(w)} |->
             IF name.val = <<>> \/ name.val = item.label
             THEN Outcome("cancelled", name.w, Nothing)
             ELSE RenameTo(name.w, item, name.val)])

\* a target given as a plain path string
StringTarget(p) == [given |-> TRUE, toolbar |-> FALSE, path |-> p, type |-> "string"]

\* actualParentPath === '/' && currentBasePath !== '/': the base path is used
CorrectRoot(parent, bp) == IF parent = Root /\ bp # Root THEN bp ELSE parent

\* the parent path of createFile and createFolder
ResolveParentPath(target, bp) ==
    CorrectRoot(IF ~target.given THEN bp
                ELSE IF target.type = "string" THEN target.path
                ELSE IF target.type = "file" THEN Dirname(target.path)
                ELSE IF target.type = "directory" THEN target.path
                ELSE bp, bp)

\* the parent path of uploadFile: the path of the node, whatever its kind
UploadParentPath(target, bp) ==
    CorrectRoot(IF ~target.given THEN bp ELSE target.path, bp)

\* the full path of createFile and createFolder: `/${name}` under '/',
\* `${parent}${name}` under a parent that ends in a slash, `${parent}/${name}`
\* under any other
FullPath(parent, name) ==
    IF parent = Root THEN <<name>>
    ELSE IF parent[Len(parent)] = <<>> THEN SubSeq(parent, 1, Len(parent) - 1) \o <<name>>
    ELSE Append(parent, name)

\* WebDAVTreeDataProvider.createFile: the parent is resolved before the input
\* box is shown, isConnected is read again after it
CreateFileResult(w, target) ==
    IF ~w.mem.isConnected THEN Outcome("notConnected", w, Nothing)
    ELSE Awaited([name \in {Input(w)} |->
             IF name.val = <<>> THEN Outcome("cancelled", name.w, Nothing)
             ELSE IF ~name.w.mem.isConnected THEN Outcome("notConnected", name.w, Nothing)
             ELSE Awaited([made \in {ClientCreateFile(name.w,
                                         FullPath(ResolveParentPath(target,
                                                                    w.mem.currentBasePath),
                                                  name.val), <<>>)} |->
                      IF made.err.ok THEN Outcome("done", Refresh(made.w).w, Nothing)
                      ELSE Outcome("failed", made.w, Nothing)])])

\* the first check of createFolder: a parent that stats as a file gives way
\* to its own parent; a failed stat is ignored
FolderParent(w, parent) ==
    Awaited([st \in {ClientStat(w, parent)} |->
        IF st.err.ok /\ st.val.type = "file" THEN Res(st.w, NoError, Dirname(parent))
        ELSE Res(st.w, NoError, parent)])

\* the second check of createFolder: every strict ancestor of the full path
\* is statted from the root down; the error thrown for a file is caught by
\* the catch around the stat, as is a failed stat
RECURSIVE CheckAncestors(_, _, _)
CheckAncestors(w, fullPath, i) ==
    IF i >= Len(fullPath) THEN Res(w, NoError, <<>>)
    ELSE Awaited([st \in {ClientStat(w, SubSeq(fullPath, 1, i))} |->
             CheckAncestors(st.w, fullPath, i + 1)])

\* createFolder after its input box and its second look at isConnected
CreateFolderIn(w, parent, folderName) ==
    Awaited([par \in {FolderParent(w, parent)} |->
    Awaited([chk \in {CheckAncestors(par.w, FullPath(par.val, folderName), 0)} |->
        IF ~chk.err.ok THEN Outcome("failed", chk.w, Nothing)
        ELSE Awaited([made \in {ClientMkdir(chk.w, FullPath(par.val, folderName))} |->
                 IF made.err.ok THEN Outcome("done", Refresh(made.w).w, Nothing)
                 ELSE Outcome("failed", made.w, Nothing)])])])

\* WebDAVTreeDataProvider.createFolder
CreateFolderResult(w, target) ==
    IF ~w.mem.isConnected THEN Outcome("notConnected", w, Nothing)
    ELSE Awaited([name \in {Input(w)} |->
             IF name.val = <<>> THEN Outcome("cancelled", name.w, Nothing)
             ELSE IF ~name.w.mem.isConnected THEN Outcome("notConnected", name.w, Nothing)
             ELSE CreateFolderIn(name.w, ResolveParentPath(target, w.mem.currentBasePath),
                                 name.val)])

\* the for loop of uploadFile from file i on; val counts the successes.  The
\* cancellation token is only listened to for a log line, so the loop does
\* not depend on it
RECURSIVE UploadFrom(_, _, _, _, _)
UploadFrom(w, parent, files, i, success) ==
    IF i > Len(files) THEN Res(w, NoError, success)
    ELSE Awaited([made \in {ClientCreateFile(w, JoinPath(parent, files[i].name),
                                              files[i].text)} |->
             UploadFrom(made.w, parent, files, i + 1,
                        success + (IF made.err.ok THEN 1 ELSE 0))])

\* the files the user picks in the open dialog, none when it was dismissed
OpenDialog(w) == Ask(w, "files")

\* WebDAVTreeDataProvider.uploadFile
UploadFileResult(w, target) ==
    IF ~w.mem.isConnected THEN Outcome("notConnected", w, Nothing)
    ELSE Awaited([picked \in {OpenDialog(w)} |->
         IF picked.val = <<>> THEN Outcome("cancelled", picked.w, Nothing)
         ELSE IF ~picked.w.mem.isConnected THEN Outcome("notConnected", picked.w, Nothing)
         ELSE Awaited([up \in {UploadFrom(picked.w,
                                          UploadParentPath(target, w.mem.currentBasePath),
                                          picked.val, 1, 0)} |->
                  Outcome(IF up.val = Len(picked.val) THEN "done"
                          ELSE IF up.val > 0 THEN "partial" ELSE "failed",
                          IF up.val > 0 THEN Refresh(up.w).w ELSE up.w, Nothing)])])

-----------------------------------------------------------------------------
(* What the tree view and the callers of the client get *)

\* WebDAVTreeDataProvider.refresh as the command calls it: val is what it
\* assigns to treeItems
RefreshResult(w) ==
    Awaited([r \in {Refresh(w)} |->
        Outcome(IF Len(r.val) = 1 /\ r.val[1].isSpecialItem THEN "shown"
                ELSE IF r.val = <<EmptyItem(r.val[1].path)>> THEN "empty"
                ELSE "listed", r.w, r.val)])

\* WebDAVTreeDataProvider.getChildren of a node: a special node has no
\* children, a directory node is listed while the provider is connected, and
\* a listing that fails shows as one special node
GetChildrenResult(w, element) ==
    IF element.isSpecialItem THEN Outcome("none", w, <<>>)
    ELSE IF element.type = "directory" /\ w.mem.isConnected
    THEN Awaited([r \in {GetRemoteFiles(w, element.path)} |->
             IF r.err.ok THEN Outcome("listed", r.w, r.val)
             ELSE Outcome("shown", r.w, <<SpecialItem("error-child", element.path)>>)])
    ELSE Outcome("none", w, <<>>)

\* MyWebDAVClient.getDirectoryContents as its caller sees it: val is the
\* listing it returns
GetDirectoryContentsResult(w, p) ==
    Awaited([r \in {ClientList(w, p)} |->
        Outcome(IF r.err.ok THEN "returned" ELSE "error", r.w, r.val)])

\* a method of MyWebDAVClient as its caller sees it: it returns, or it
\* throws the error val
ClientCallResult(w, method, p, text) ==
    Awaited([r \in {ClientCall(w, method, p, text)} |->
        Outcome(IF r.err.ok THEN "ok" ELSE "error", r.w, r.err)])
-----------------------------------------------------------------------------
(* Connecting: MyWebDAVClient.connectInternal and                          *)
(* WebDAVTreeDataProvider.connect.  args is [serverUrl, username,          *)
(* password, basePath].                                                    *)

Blank == " "
Slash == "/"
Jianguoyun == "jianguoyun.com"

\* String.prototype.trim
RECURSIVE TrimStart(_)
TrimStart(s) == IF Len(s) > 0 /\ Head(s) = Blank THEN TrimStart(Tail(s)) ELSE s
RECURSIVE TrimEnd(_)
TrimEnd(s) ==
    IF Len(s) > 0 /\ s[Len(s)] = Blank THEN TrimEnd(SubSeq(s, 1, Len(s) - 1)) ELSE s
Trim(s) == TrimEnd(TrimStart(s))

\* serverUrl.startsWith('http://') || serverUrl.startsWith('https://')
HasHttpScheme(url) == Len(url) > 0 /\ url[1] \in {"http://", "https://"}
\* serverUrl.includes('jianguoyun.com')
IsJianguoyun(url) == \E i \in 1..Len(url) : url[i] = Jianguoyun

\* the input validation of connectInternal: the message it throws, or "ok"
ValidateConnect(args) ==
    IF args.serverUrl = <<>> \/ args.username = <<>> \/ args.password = <<>> THEN "empty"
    ELSE IF ~HasHttpScheme(args.serverUrl) THEN "scheme"
    ELSE "ok"

\* a server address kept as it was given
ServerUrlKept(url) == url
\* the cleaning of the server address: trim, then drop one trailing slash
CleanServerUrl(url) ==
    IF Len(Trim(url)) > 0 /\ Trim(url)[Len(Trim(url))] = Slash
    THEN SubSeq(Trim(url), 1, Len(Trim(url)) - 1)
    ELSE Trim(url)

\* the probe of the base path: it is created once when its listing answers 404
ProbeBasePath(w, bp) ==
    Awaited([base \in {LibList(w, bp, FALSE)} |->
        IF base.err.ok THEN base
        ELSE IF base.err.status = 404 THEN LibMkcol(base.w, bp)
        ELSE base])

\* the try block of testConnectionInternal: the root is listed, then the
\* base path
TestConnectionInternal(w, bp) ==
    Awaited([root \in {LibList(w, Root, FALSE)} |->
        IF ~root.err.ok THEN root
        ELSE IF bp = Root THEN root
        ELSE ProbeBasePath(root.w, bp)])

\* the catch block of testConnectionInternal, reached with a session of a
\* jianguoyun server: the base path alone is probed, the root is skipped
TestConnectionJianguoyun(w, bp) ==
    IF bp = Root THEN Res(w, NoError, <<>>) ELSE ProbeBasePath(w, bp)

\* MyWebDAVClient.testConnectionInternal: the catch block reads the session
\* the client holds when it is entered.  Of a test the 30 s timer has
\* overtaken (RaceLost) nothing more is heard
TestConnection(w, bp) ==
    Awaited([first \in {TestConnectionInternal(w, bp)} |->
        IF first.err.ok \/ first.err = RaceLost THEN first
        ELSE IF first.w.mem.connection.connected
                /\ IsJianguoyun(first.w.mem.connection.serverUrl)
             THEN TestConnectionJianguoyun(first.w, bp)
        ELSE first])

\* the message connectInternal throws for a failed connection test
ConnectErrorMessage(err) ==
    IF err.status \in {401, 403} THEN "auth"
    ELSE IF err.status = 404 THEN "notFound"
    ELSE IF err.status = 0 THEN "network"
    ELSE IF err.code = "ENOTFOUND" THEN "dns"
    ELSE IF err.code = "ECONNREFUSED" THEN "refused"
    ELSE IF err.code = "ETIMEDOUT" THEN "timedOut"
    ELSE IF err.code = "CERT_HAS_EXPIRED" THEN "certExpired"
    ELSE "testFailed"

\* this.connection = session
SetConnection(w, session) == Update(w, [w.mem EXCEPT !.connection = session])

\* MyWebDAVClient.connectInternal: val is "true" or the error it throws.
\* abandoned says that the 30 s timer has fired: the race is over, and the
\* connection test, which goes on, is no longer listened to; a test that
\* ends with RaceLost is one the timer has overtaken at its last request
ConnectInternal(w, args, abandoned) ==
    IF ValidateConnect(args) # "ok"
    THEN Res(SetConnection(w, NoConnection), PlainError, ValidateConnect(args))
    ELSE Awaited([test \in {TestConnection(w, args.basePath)} |->
             IF abandoned THEN Res(test.w, PlainError, "timeout")
             ELSE IF test.err = RaceLost
             THEN Res(SetConnection(test.w, NoConnection), RaceLost, "timeout")
             ELSE IF test.err.ok
             THEN Res(SetConnection(test.w, Session(CleanServerUrl(args.serverUrl),
                                                    args.basePath)),
                      NoError, "true")
             ELSE Res(SetConnection(test.w, NoConnection), PlainError,
                      ConnectErrorMessage(test.err))])

\* connectInternal as the promise of connect sees it: fulfilled with true,
\* or rejected with an error
ClientConnectResult(w, args, abandoned) ==
    Awaited([c \in {ConnectInternal(w, args, abandoned)} |-> Outcome(c.val, c.w, Nothing)])

\* a connect that never waits for another
GuardOff(promise) == FALSE
\* if (this.connectionPromise)
ConnectInFlight(promise) == promise.id # 0

\* one call of connect: the promise it awaits and what it has settled with
Call(args, awaits, outcome) == [args |-> args, awaits |-> awaits, outcome |-> outcome]

\* the calls awaiting the promise id settle with its outcome
Settle(cs, id, outcome) ==
    [i \in 1..Len(cs) |-> IF cs[i].awaits = id /\ cs[i].outcome = "pending"
                          THEN [cs[i] EXCEPT !.outcome = outcome] ELSE cs[i]]

\* the complete settings with the base path bp
Config(bp) == WithBasePath(Settings(ServerUrl, <<"u">>, <<"p">>), bp)

\* this.connectionPromise = promise
SetPromise(w, promise) == Update(w, [w.mem EXCEPT !.connectionPromise = promise])

\* the error a call of connect that awaited the promise throws
PromiseError(outcome) ==
    IF outcome = "true" THEN NoError
    ELSE IF outcome = "timeout" THEN RaceLost
    ELSE PlainError

\* MyWebDAVClient.connect called by a handler of the tree.  With a promise
\* in the field the call awaits it and returns what it settles with.
\* Without one it starts connectInternal, puts its promise into the field
\* and awaits it; the promise settles when connectInternal ends, and the
\* finally block empties the field in the same turn
ClientConnect(w, args) ==
    IF ConnectInFlight(w.mem.connectionPromise) THEN Await(w, JoinRequest)
    ELSE Awaited([c \in {ConnectInternal(SetPromise(w, PromiseOf(1, args, "pending")),
                                         args, FALSE)} |->
             Res(SetPromise(c.w, PromiseOf(1, args, c.val)), c.err, c.val)])

\* the listing WebDAVTreeDataProvider.connect makes once the client is
\* connected, of the base path the provider holds by then
VerifyBasePath(w) ==
    Awaited([listed \in {ClientList(w, w.mem.currentBasePath)} |->
        IF listed.err.ok THEN listed
        ELSE IF listed.err.has404
             THEN IF listed.w.mem.currentBasePath # Root
                  THEN Res(ClientMkdir(listed.w, listed.w.mem.currentBasePath).w, NoError, <<>>)
                  ELSE Res(listed.w, NoError, <<>>)
        ELSE listed])

\* the catch and finally blocks of WebDAVTreeDataProvider.connect
ConnectFailed(w) ==
    Update(w, [w.mem EXCEPT !.isConnected = FALSE, !.isConnecting = FALSE])

\* the statements of WebDAVTreeDataProvider.connect after the verification
Connected1(w) ==
    Awaited([shown \in {Refresh(Update(w, [w.mem EXCEPT !.isConnected = TRUE]))} |->
        Outcome("done", Update(shown.w, [shown.w.mem EXCEPT !.isConnecting = FALSE]), Nothing)])

\* await this.loadConfig(): the settings are read
LoadConfig(w) == Ask(w, "config")
\* isValid of checkConfiguration: the server address and the user are set;
\* the password is not asked for
IsValid(config) == Trim(config.serverUrl) # <<>> /\ Trim(config.username) # <<>>
\* ConfigManager.checkConfiguration: val is the settings read
CheckConfiguration(w) == LoadConfig(w)

\* WebDAVTreeDataProvider.connect from the answer of checkConfiguration on,
\* with the settings and their base path
ConnectWith(w, config) ==
    Awaited([c \in {ClientConnect(Update(w, [w.mem EXCEPT
                                                 !.currentBasePath = config.basePath]),
                                  config)} |->
        IF ~c.err.ok THEN Outcome("failed", ConnectFailed(c.w), Nothing)
        ELSE Awaited([v \in {VerifyBasePath(c.w)} |->
                 IF v.err.ok THEN Connected1(v.w)
                 ELSE Outcome("failed", ConnectFailed(v.w), Nothing)])])

\* WebDAVTreeDataProvider.connect
TreeConnect(w, bp) ==
    IF w.mem.isConnecting THEN Outcome("busy", w, Nothing)
    ELSE IF w.mem.isConnected THEN Outcome("refreshed", Refresh(w).w, Nothing)
    ELSE Awaited([cfg \in {CheckConfiguration(Update(w, [w.mem EXCEPT
                                                              !.isConnecting = TRUE]))} |->
             IF ~IsValid(cfg.val)
             THEN Outcome("invalid",
                          Update(cfg.w, [cfg.w.mem EXCEPT !.isConnecting = FALSE]), Nothing)
             ELSE ConnectWith(cfg.w, WithBasePath(cfg.val, bp))])

\* WebDAVTreeDataProvider.tryAutoConnect: val is what it returns
TryAutoConnect(w, bp) ==
    IF w.mem.isConnected \/ w.mem.isConnecting THEN Res(w, NoError, w.mem.isConnected)
    ELSE Awaited([cfg \in {CheckConfiguration(w)} |->
             IF ~IsValid(cfg.val) THEN Res(cfg.w, NoError, FALSE)
             ELSE Awaited([c \in {ClientConnect(Update(cfg.w, [cfg.w.mem EXCEPT
                                                                  !.currentBasePath = bp]),
                                                WithBasePath(cfg.val, bp))} |->
                      IF c.err.ok
                      THEN Res(Update(c.w, [c.w.mem EXCEPT !.isConnected = TRUE]), NoError, TRUE)
                      ELSE Res(c.w, NoError, FALSE)])])

\* the automatic connect at the activation of the extension: tryAutoConnect
\* and, when it returns true, refresh
AutoConnectResult(w, bp) ==
    Awaited([c \in {TryAutoConnect(w, bp)} |->
        IF c.val = TRUE THEN Outcome("connected", Refresh(c.w).w, Nothing)
        ELSE Outcome("notConnected", c.w, Nothing)])

\* connectInternal of a client made for one command: it holds no session
\* while its connection test runs, so that the catch block of the test
\* throws the error on; the session it ends with is its own
TestClientConnect(w, args, abandoned) ==
    IF ValidateConnect(args) # "ok" THEN Res(w, PlainError, ValidateConnect(args))
    ELSE Awaited([test \in {TestConnectionInternal(w, args.basePath)} |->
             IF abandoned THEN Res(test.w, PlainError, "timeout")
             ELSE IF test.err = RaceLost THEN Res(test.w, RaceLost, "timeout")
             ELSE IF test.err.ok THEN Res(test.w, NoError, "true")
             ELSE Res(test.w, PlainError, ConnectErrorMessage(test.err))])

\* the connection test of such a client as a handler of its own
TestClientConnectResult(w, args, abandoned) ==
    Awaited([c \in {TestClientConnect(w, args, abandoned)} |-> Outcome(c.val, c.w, Nothing)])

\* MyWebDAVClient.createFile of a client that holds its own session
TestClientCreateFile(w, p, text) ==
    Awaited([probe \in {ProbeParent(w, p)} |->
    Awaited([made \in {IF ~probe.err.ok /\ probe.err.status = 404
                       THEN LibMkdir(probe.w, GetParentPath(p))
                       ELSE Res(probe.w, NoError, <<>>)} |->
        IF ~made.err.ok THEN made ELSE LibPut(made.w, p, Encode(text))])])

\* !config.serverUrl || !config.username || !config.password
Incomplete(config) ==
    config.serverUrl = <<>> \/ config.username = <<>> \/ config.password = <<>>

\* 'testfile.md' and 'test_connection_<time>.txt'
TestFileName == <<"t">>
TestConnectionName == <<"t", "c">>

\* the command webdav.testCreate, with the base path bp of the settings: a
\* client of its own connects and creates the test file, then the tree is
\* refreshed; val is the message of a connect that failed
TestCreateResult(w, bp) ==
    Awaited([cfg \in {LoadConfig(w)} |->
        IF Incomplete(cfg.val) THEN Outcome("notConfigured", cfg.w, Nothing)
        ELSE Awaited([c \in {TestClientConnect(cfg.w, WithBasePath(cfg.val, bp), FALSE)} |->
        IF ~c.err.ok THEN Outcome("failed", c.w, c.val)
        ELSE Awaited([made \in {TestClientCreateFile(c.w, JoinPath(bp, TestFileName),
                                                     Text2)} |->
                 IF ~made.err.ok THEN Outcome("failed", made.w, Nothing)
                 ELSE Outcome("done", Refresh(made.w).w, Nothing)])])])

\* step 3 of testWebDAVConnection: the base path is listed and, when the
\* listing answers 404, created; no error ends the test
DebugBasePath(w, bp) ==
    IF bp = Root THEN Res(w, NoError, <<>>)
    ELSE Awaited([base \in {LibList(w, bp, FALSE)} |->
             IF ~base.err.ok /\ base.err.status = 404
             THEN Res(LibMkcol(base.w, bp).w, NoError, <<>>)
             ELSE Res(base.w, NoError, <<>>)])

\* step 4 of testWebDAVConnection: the test file is put, read and deleted;
\* the first error ends the step
DebugFile(w, p) ==
    Awaited([put \in {LibPut(w, p, Encode(Text2))} |->
        IF ~put.err.ok THEN put
        ELSE Awaited([got \in {Await(put.w, Request("get", p, <<>>, "text", FALSE))} |->
                 IF ~got.err.ok THEN got ELSE LibDelete(got.w, p)])])

\* testWebDAVConnection, which talks to the server through a library
\* client of its own
TestWebDAVConnection(w, args) ==
    IF ValidateConnect(args) # "ok" THEN Outcome(ValidateConnect(args), w, Nothing)
    ELSE Awaited([root \in {LibList(w, Root, FALSE)} |->
             IF ~root.err.ok THEN Outcome("rootFailed", root.w, Nothing)
             ELSE Awaited([base \in {DebugBasePath(root.w, args.basePath)} |->
                  Awaited([file \in {DebugFile(base.w, JoinPath(args.basePath,
                                                                TestConnectionName))} |->
                      Outcome(IF file.err.ok THEN "done" ELSE "fileFailed", file.w,
                              Nothing)])])])

\* the command webdav.debugConnection, with the base path bp of the settings
DebugConnectionResult(w, bp) ==
    Awaited([cfg \in {LoadConfig(w)} |->
        IF Incomplete(cfg.val) THEN Outcome("notConfigured", cfg.w, Nothing)
        ELSE TestWebDAVConnection(cfg.w, WithBasePath(cfg.val, bp))])
-----------------------------------------------------------------------------
(* The Virtual Document Overlay (WebDAVFileSystemProvider).  virtualFiles   *)
(* is the Map in insertion order: a sequence of [uri, file, id].  A uri is  *)
(* the pair of the authority and the path of                                *)
(* `webdav-file://${encodeURIComponent(webdavPath)}/${fileName}`; the names *)
(* of the model hold no character that the encoding or the parse changes.   *)
(* The value of an entry is an object: id tells the objects apart, and      *)
(* orphans holds the objects that left the Map while a handler that may     *)
(* hold one of them is in flight.                                           *)

\* WebDAVFileSystemProvider.createVirtualFileUri
CreateVirtualFileUri(webdavPath, fileName) == [authority |-> webdavPath, path |-> fileName]

VirtualFile(webdavPath, fileName, content, mtime, ctime, size, isDirty) ==
    [webdavPath |-> webdavPath, fileName |-> fileName, content |-> content,
     mtime |-> mtime, ctime |-> ctime, size |-> size, isDirty |-> isDirty]

\* virtualFiles.has(uriString)
HasFile(files, uri) == \E i \in 1..Len(files) : files[i].uri = uri
IndexOf(files, uri) == CHOOSE i \in 1..Len(files) : files[i].uri = uri
\* virtualFiles.get(uriString): the value of the object
GetFile(files, uri) == files[IndexOf(files, uri)].file
\* virtualFiles.get(uriString): the object
IdOf(files, uri) == files[IndexOf(files, uri)].id

Object(id, file) == [id |-> id, file |-> file]
ObjectIds(mem) ==
    {mem.virtualFiles[i].id : i \in 1..Len(mem.virtualFiles)}
    \cup {mem.orphans[i].id : i \in 1..Len(mem.orphans)}
\* a new object
NewId(mem) == CHOOSE n \in 1..(Cardinality(ObjectIds(mem)) + 1) : n \notin ObjectIds(mem)

\* the value of the object id
ReadObject(mem, id) ==
    IF \E i \in 1..Len(mem.virtualFiles) : mem.virtualFiles[i].id = id
    THEN mem.virtualFiles[CHOOSE i \in 1..Len(mem.virtualFiles) :
                              mem.virtualFiles[i].id = id].file
    ELSE mem.orphans[CHOOSE i \in 1..Len(mem.orphans) : mem.orphans[i].id = id].file
\* the fields of the object id are assigned
WriteObject(mem, id, file) ==
    [mem EXCEPT !.virtualFiles = [i \in 1..Len(@) |-> IF @[i].id = id
                                                      THEN [@[i] EXCEPT !.file = file]
                                                      ELSE @[i]],
                !.orphans = [i \in 1..Len(@) |-> IF @[i].id = id THEN Object(id, file)
                                                 ELSE @[i]]]

\* virtualFiles.set(uriString, file) with a new object
SetFile(mem, uri, file) ==
    IF HasFile(mem.virtualFiles, uri)
    THEN [mem EXCEPT !.virtualFiles[IndexOf(mem.virtualFiles, uri)] =
                         [uri |-> uri, file |-> file, id |-> NewId(mem)],
                     !.orphans = Append(@, Object(IdOf(mem.virtualFiles, uri),
                                                  GetFile(mem.virtualFiles, uri)))]
    ELSE [mem EXCEPT !.virtualFiles = Append(@, [uri |-> uri, file |-> file,
                                                 id |-> NewId(mem)])]
\* the objects of the entries that are in files and no longer in kept
Dropped(files, kept) ==
    LET gone == SelectSeq(files, LAMBDA e : ~HasFile(kept, e.uri))
    IN  [i \in 1..Len(gone) |-> Object(gone[i].id, gone[i].file)]
\* virtualFiles.delete(uriString)
DeleteFile(mem, uri) ==
    [mem EXCEPT !.virtualFiles = SelectSeq(@, LAMBDA e : e.uri # uri),
                !.orphans = @ \o Dropped(mem.virtualFiles,
                                         SelectSeq(mem.virtualFiles, LAMBDA e : e.uri # uri))]

\* no handler is in flight: no object is held but those of the Map
Collected(mem) ==
    [mem EXCEPT !.orphans = <<>>,
                !.virtualFiles = [i \in 1..Len(@) |-> [@[i] EXCEPT !.id = i]]]

\* what a handler of the overlay has seen: the error it throws, the counts
\* saveAll returns, the documents saveAll tried to write and those it wrote
DocSeen(uri, err) ==
    [uri |-> uri, err |-> err, success |-> 0, fail |-> 0, attempts |-> <<>>, saved |-> <<>>,
     content |-> <<>>, dirtyClosed |-> 0]
NoUri == CreateVirtualFileUri(Root, <<>>)
DocOutcome(w, uri, err) == Outcome(IF err.ok THEN "ok" ELSE "error", w, DocSeen(uri, err))

\* WebDAVFileSystemProvider.openFile: the Map is written when the content
\* has arrived, with the time of that moment
OpenFileResult(w, webdavPath, fileName) ==
    Awaited([got \in {ClientGet(w, webdavPath, "text")} |->
        IF ~got.err.ok /\ ~got.err.has404
        THEN DocOutcome(got.w, CreateVirtualFileUri(webdavPath, fileName), got.err)
        ELSE Awaited([content \in {IF got.err.ok THEN got.val ELSE <<>>} |->
                 DocOutcome(Update(got.w,
                                   SetFile(got.w.mem, CreateVirtualFileUri(webdavPath, fileName),
                                           VirtualFile(webdavPath, fileName, Encode(content),
                                                       got.w.mem.now, got.w.mem.now,
                                                       Len(content), FALSE))),
                            CreateVirtualFileUri(webdavPath, fileName), NoError)])])

\* the statements of saveFile after the write: the object the handler took
\* from the Map at its start is assigned
Saved(w, id, content) ==
    Update(w, WriteObject(w.mem, id,
                          [ReadObject(w.mem, id) EXCEPT !.content = Encode(content),
                                                        !.mtime = w.mem.now,
                                                        !.size = Len(content),
                                                        !.isDirty = FALSE]))

\* WebDAVFileSystemProvider.saveFile
SaveFileResult(w, uri, content) ==
    IF ~HasFile(w.mem.virtualFiles, uri) THEN DocOutcome(w, uri, PlainError)
    ELSE Awaited([wr \in {ClientCreateFile(w, GetFile(w.mem.virtualFiles, uri).webdavPath,
                                           content)} |->
             IF ~wr.err.ok THEN DocOutcome(wr.w, uri, wr.err)
             ELSE DocOutcome(Saved(wr.w, IdOf(w.mem.virtualFiles, uri), content), uri,
                             NoError)])

\* WebDAVFileSystemProvider.writeFile
WriteFileResult(w, uri, content, create, overwrite) ==
    IF ~HasFile(w.mem.virtualFiles, uri) /\ ~create THEN DocOutcome(w, uri, PlainError)
    ELSE IF HasFile(w.mem.virtualFiles, uri) /\ ~overwrite THEN DocOutcome(w, uri, PlainError)
    ELSE IF ~HasFile(w.mem.virtualFiles, uri)
         THEN DocOutcome(Update(w, SetFile(w.mem, uri,
                                           VirtualFile(uri.authority, uri.path, content,
                                                       w.mem.now, w.mem.now, Len(content),
                                                       TRUE))),
                         uri, NoError)
    ELSE DocOutcome(Update(w, WriteObject(w.mem, IdOf(w.mem.virtualFiles, uri),
                                          [GetFile(w.mem.virtualFiles, uri)
                                           EXCEPT !.content = content, !.mtime = w.mem.now,
                                                  !.size = Len(content), !.isDirty = TRUE])),
                    uri, NoError)

\* WebDAVFileSystemProvider.delete
DeleteResult(w, uri) ==
    IF ~HasFile(w.mem.virtualFiles, uri) THEN DocOutcome(w, uri, PlainError)
    ELSE DocOutcome(Update(w, DeleteFile(w.mem, uri)), uri, NoError)

\* the state of the loop of saveAll: held is Array.from(virtualFiles.values())
SaveAllState(w, held) ==
    [w |-> w, held |-> held, success |-> 0, fail |-> 0, attempts |-> <<>>, saved |-> <<>>]

\* the statements of saveAll after a write
Cleaned(w, id) ==
    Update(w, WriteObject(w.mem, id, [ReadObject(w.mem, id) EXCEPT !.isDirty = FALSE,
                                                                   !.mtime = w.mem.now]))

RECURSIVE SaveAllStopping(_, _)
\* a saveAll that gives up at the first document it cannot write
SaveAllStopping(r, i) ==
    IF i > Len(r.held) THEN r
    ELSE Awaited([f \in {ReadObject(r.w.mem, r.held[i].id)} |->
         IF ~f.isDirty THEN SaveAllStopping(r, i + 1)
         ELSE Awaited([wr \in {ClientCreateFile(r.w, f.webdavPath, Decode(f.content))} |->
                  IF wr.err.ok
                  THEN SaveAllStopping(
                           [r EXCEPT !.w = Cleaned(wr.w, r.held[i].id),
                                     !.success = @ + 1,
                                     !.attempts = Append(@, r.held[i].uri),
                                     !.saved = Append(@, r.held[i].uri)],
                           i + 1)
                  ELSE [r EXCEPT !.w = wr.w, !.fail = @ + 1,
                                 !.attempts = Append(@, r.held[i].uri)]])])

RECURSIVE SaveAllFrom(_, _)
\* the loop of saveAll from the i-th held object on: isDirty and content are
\* read when the loop reaches the object
SaveAllFrom(r, i) ==
    IF i > Len(r.held) THEN r
    ELSE Awaited([f \in {ReadObject(r.w.mem, r.held[i].id)} |->
         IF ~f.isDirty THEN SaveAllFrom(r, i + 1)
         ELSE Awaited([wr \in {ClientCreateFile(r.w, f.webdavPath, Decode(f.content))} |->
                  IF wr.err.ok
                  THEN SaveAllFrom(
                           [r EXCEPT !.w = Cleaned(wr.w, r.held[i].id),
                                     !.success = @ + 1,
                                     !.attempts = Append(@, r.held[i].uri),
                                     !.saved = Append(@, r.held[i].uri)],
                           i + 1)
                  ELSE SaveAllFrom(
                           [r EXCEPT !.w = wr.w, !.fail = @ + 1,
                                     !.attempts = Append(@, r.held[i].uri)],
                           i + 1)])])

\* WebDAVFileSystemProvider.saveAll
SaveAllResult(w) ==
    Awaited([r \in {IF Len(w.mem.virtualFiles) = 0 THEN SaveAllState(w, <<>>)
                    ELSE SaveAllFrom(SaveAllState(w, w.mem.virtualFiles), 1)} |->
        Outcome("ok", r.w,
                [DocSeen(NoUri, NoError) EXCEPT !.success = r.success, !.fail = r.fail,
                                                !.attempts = r.attempts, !.saved = r.saved])])

\* a closeAll that keeps the documents with unsaved edits
CloseAllKeepingDirty(files) == SelectSeq(files, LAMBDA e : e.file.isDirty)
\* WebDAVFileSystemProvider.closeAll: virtualFiles.clear()
CloseAllResult(files) == <<>>

\* WebDAVFileSystemProvider.closeAll
CloseAllHandler(w) ==
    Outcome("ok",
            Update(w, [w.mem EXCEPT !.virtualFiles = CloseAllResult(@),
                                    !.orphans = @ \o Dropped(w.mem.virtualFiles,
                                                            CloseAllResult(w.mem.virtualFiles))]),
            [DocSeen(NoUri, NoError) EXCEPT
                 !.dirtyClosed = Len(SelectSeq(w.mem.virtualFiles, LAMBDA e : e.file.isDirty))])

-----------------------------------------------------------------------------
(* Inputs *)

\* the base path of the settings: '/', '/a', and '/a/', which ends in a slash
BasePaths == {Root, <<NameA>>, <<NameA, <<>>>>}
ListOrders1 == <<NameA, NameB, NameH, Name404, TestFileName, TestConnectionName>>
ListOrders == {ListOrders1, <<TestConnectionName, TestFileName, Name404, NameH, NameB, NameA>>}

Tree1 ==
    (Root :> Dir) @@ (<<NameA>> :> Dir) @@ (<<NameA, NameA>> :> Dir)
    @@ (<<NameA, NameA, NameB>> :> File(Encode(Text1)))
    @@ (<<NameA, NameH>> :> File(Encode(Text2))) @@ (<<NameB>> :> Dir)
Tree2 ==
    (Root :> Dir) @@ (<<NameA>> :> Dir) @@ (<<NameA, NameA>> :> File(Encode(Text1)))
    @@ (<<NameA, NameB>> :> File(Bin1)) @@ (<<NameB>> :> File(Encode(Text2)))
\* a root that holds a hidden file only: its listing is empty
Tree3 == (Root :> Dir) @@ (<<NameH>> :> File(Encode(Text1)))
InitTrees == {Tree1, Tree2, Tree3}

\* the paths a listing below the directory d can show, relative to d
VisiblePaths(f, d) ==
    {SubSeq(p, Len(d) + 1, Len(p)) :
        p \in {q \in DOMAIN f : /\ Len(q) > Len(d)
                                /\ IsPrefix(d, q)
                                /\ \A i \in (Len(d) + 1)..Len(q) : ~IsHidden(q[i])}}
\* the nodes of the entries below the base path: the path of a node is the
\* base path as it is configured followed by the names down to the entry
TreeItems(f, bp) ==
    {Item(bp \o r, f[Clean(bp) \o r].kind) : r \in VisiblePaths(f, Clean(bp))}
\* the names a listing of the directory p of the store f shows
ListedNames(f, p) == {n \in ChildNames(f, p) : ~IsHidden(n)}
\* the nodes of the tree view: those of the entries or, when the listing of
\* the base path is empty, the node that says so
ShownItems(f, bp) ==
    IF Clean(bp) \in DOMAIN f /\ ListedNames(f, Clean(bp)) = {} THEN {EmptyItem(bp)}
    ELSE TreeItems(f, bp)
\* a node still shown although its entry is gone
StalePath == <<NameB, NameB>>
StaleItems(f) == IF StalePath \in DOMAIN f THEN {} ELSE {Item(StalePath, "file")}
Targets(f, bp) == {NoTarget, ToolbarTarget(bp)} \cup {NodeTarget(i) : i \in ShownItems(f, bp)}

-----------------------------------------------------------------------------
(* The handlers in flight.  A handler runs from its call to its first      *)
(* await, and from each answer to the next await or to its end; between    *)
(* two of these turns the other handlers, the store and the clock take     *)
(* their steps.  The run of a handler up to where it stands is computed    *)
(* from its call: the answers it has had and the memory it found at each   *)
(* resumption are kept with it.                                            *)

\* the run of the handler of the frame
Handle(frame) ==
    CASE frame.op = "connect" -> TreeConnect(Run(frame), frame.args.basePath)
      [] frame.op = "autoConnect" -> AutoConnectResult(Run(frame), frame.args.basePath)
      [] frame.op = "disconnect" -> DisconnectResult(Run(frame))
      [] frame.op = "refresh" -> RefreshResult(Run(frame))
      [] frame.op = "children" -> GetChildrenResult(Run(frame), frame.args.element)
      [] frame.op = "list" -> GetDirectoryContentsResult(Run(frame), frame.args.path)
      [] frame.op = "cut" -> CutItemResult(Run(frame), frame.args.item)
      [] frame.op = "copy" -> CopyItemResult(Run(frame), frame.args.item)
      [] frame.op = "paste" -> PasteItemResult(Run(frame), frame.args.target)
      [] frame.op = "clear" -> ClearClipboardResult(Run(frame))
      [] frame.op = "status" -> GetClipboardStatusResult(Run(frame))
      [] frame.op = "deleteItem" -> DeleteItemResult(Run(frame), frame.args.item)
      [] frame.op = "rename" -> RenameItemResult(Run(frame), frame.args.item)
      [] frame.op = "createFile" -> CreateFileResult(Run(frame), frame.args.target)
      [] frame.op = "createFolder" -> CreateFolderResult(Run(frame), frame.args.target)
      [] frame.op = "upload" -> UploadFileResult(Run(frame), frame.args.target)
      [] frame.op = "open" ->
            OpenFileResult(Run(frame), frame.args.webdavPath, frame.args.fileName)
      [] frame.op = "save" -> SaveFileResult(Run(frame), frame.args.uri, frame.args.content)
      [] frame.op = "write" ->
            WriteFileResult(Run(frame), frame.args.uri, frame.args.content,
                            frame.args.create, frame.args.overwrite)
      [] frame.op = "delete" -> DeleteResult(Run(frame), frame.args.uri)
      [] frame.op = "saveAll" -> SaveAllResult(Run(frame))
      [] frame.op = "closeAll" -> CloseAllHandler(Run(frame))
      [] frame.op = "client" ->
            ClientCallResult(Run(frame), frame.args.method, frame.args.path, frame.args.text)
      [] frame.op = "clientConnect" ->
            ClientConnectResult(Run(frame), frame.args.args, frame.args.abandoned)
      [] frame.op = "testClientConnect" ->
            TestClientConnectResult(Run(frame), frame.args.args, frame.args.abandoned)
      [] frame.op = "testCreate" -> TestCreateResult(Run(frame), frame.args.basePath)
      [] frame.op = "debugConnection" ->
            DebugConnectionResult(Run(frame), frame.args.basePath)

\* a handler that stands at an await
Waiting(frame, r) == [frame EXCEPT !.request = r.w.request, !.phase = "sent"]

\* the frames but the i-th
Leave(frames, i) == SubSeq(frames, 1, i - 1) \o SubSeq(frames, i + 1, Len(frames))
\* the frames with the frame at the place i, which is a new place when i is
\* past the last
Place(frames, i, frame) ==
    IF i > Len(frames) THEN Append(frames, frame) ELSE [frames EXCEPT ![i] = frame]
\* another handler is called
Joined(frames) == [j \in 1..Len(frames) |-> [frames[j] EXCEPT !.alone = FALSE]]

\* what is seen of a step: the handler it belongs to, whether the handler
\* was called, was served, resumed or ended in it, and of a handler that has
\* ended what it did and what it found at its call
Observed(frame, phase, r) ==
    [op |-> frame.op, phase |-> phase, outcome |-> r.outcome, args |-> frame.args,
     called |-> r.w.n > 0, mutated |-> r.w.muts > 0, fetched |-> r.w.gets > 0,
     log |-> r.w.log, before |-> frame.fs, start |-> frame.mems[1], alone |-> frame.alone,
     afterOpen |-> frame.afterOpen, answers |-> frame.answers, val |-> r.val]
\* the handler goes on
Pending(frame, phase) ==
    [op |-> frame.op, phase |-> phase, outcome |-> "pending", args |-> frame.args,
     called |-> FALSE, mutated |-> FALSE, fetched |-> FALSE, log |-> <<>>,
     before |-> frame.fs, start |-> frame.mems[1], alone |-> frame.alone,
     answers |-> <<>>, val |-> Nothing]
\* a step of no handler
Idle(op) ==
    [op |-> op, phase |-> "none", outcome |-> "none", args |-> <<>>, called |-> FALSE,
     mutated |-> FALSE, fetched |-> FALSE, log |-> <<>>, before |-> <<>>, start |-> <<>>,
     alone |-> TRUE, answers |-> <<>>, val |-> Nothing]

\* the fields of the program become those of the memory
Installed(mem) ==
    /\ connection' = mem.connection
    /\ isConnected' = mem.isConnected
    /\ isConnecting' = mem.isConnecting
    /\ currentBasePath' = mem.currentBasePath
    /\ clipboard' = mem.clipboard
    /\ virtualFiles' = mem.virtualFiles
    /\ orphans' = mem.orphans

\* a call of connect that awaits the promise in the field, and one whose
\* promise has settled: it goes on before any answer or timer is handled
Joining(frame) == frame.phase = "sent" /\ frame.request = JoinRequest
Woken(frame) == frame.phase = "answered" /\ frame.request = JoinRequest
Calm == \A j \in 1..Len(running) : ~Woken(running[j])

\* the promise has settled: the calls that await it have their answer
Wake(frames, promise) ==
    [j \in 1..Len(frames) |->
        IF Joining(frames[j])
        THEN [frames[j] EXCEPT !.phase = "answered",
                               !.answers = Append(@, Reply(PromiseError(promise.outcome),
                                                           promise.outcome,
                                                           Noted("join", Root, TRUE)))]
        ELSE frames[j]]
\* the frames after the run w of a handler, which may have settled the
\* promise of its connect
Notified(frames, w) ==
    IF Unreleased(w.mem.connectionPromise) THEN Wake(frames, w.mem.connectionPromise)
    ELSE frames

\* the handler of the frame, which has the place i among the frames, has
\* run to the result r: it stands at its next await or has ended
Proceeds(frames, i, frame, r, phase) ==
    /\ running' = IF r.w.blocked THEN Place(Notified(frames, r.w), i, Waiting(frame, r))
                  ELSE Leave(Notified(frames, r.w), i)
    /\ Installed(IF running' = <<>> THEN Collected(r.w.mem) ELSE r.w.mem)
    /\ last' = IF r.w.blocked THEN Pending(frame, phase) ELSE Observed(frame, "ended", r)

\* the promise of connectInternal run as a handler of its own settles with
\* the outcome when the handler ends, unless its race was lost to the timer
\* before, and stays in the field; the promise a handler of the tree has
\* settled leaves the field in the same turn, in the finally block of
\* connect
Settles(frame, r) ==
    /\ connectionPromise' =
          IF frame.op \in {"clientConnect", "testClientConnect"}
          THEN IF ~r.w.blocked /\ ~frame.args.abandoned
               THEN [connectionPromise EXCEPT !.outcome = r.outcome]
               ELSE connectionPromise
          ELSE IF Unreleased(r.w.mem.connectionPromise) THEN NoPromise
          ELSE r.w.mem.connectionPromise
    /\ UNCHANGED calls

\* the handler op is called with the arguments args
Begins(op, args) ==
    /\ Calm
    /\ \E frame \in {Frame(op, args)} :
           \E r \in {Handle(frame)} :
               /\ Proceeds(Joined(running), Len(running) + 1, frame, r, "called")
               /\ Settles(frame, r)

\* the faults the calls of the frame have had
Faults(frame) ==
    Cardinality({k \in 1..Len(frame.answers) :
                     ~frame.answers[k].sent.answered \/ frame.answers[k].sent.status = 401})

Untouched == UNCHANGED <<connectionPromise, calls, attempts, now, pastes, docSteps>>

\* the handler i goes on from the frame, which holds its new answer and the
\* memory it finds
Goes(i, frame) ==
    /\ \E r \in {Handle(frame)} :
           /\ Proceeds(running, i, frame, r, "resumed")
           /\ Settles(frame, r)
    /\ UNCHANGED <<fs, attempts, now, pastes, docSteps>>
MemoryUnchanged ==
    UNCHANGED <<connection, isConnected, isConnecting, currentBasePath, clipboard,
                virtualFiles, orphans>>

\* the store carries out the request of the handler i; the answer is on its
\* way
Serves(i, denied, deep, order) ==
    /\ Calm
    /\ running[i].phase = "sent"
    /\ IsRemote(running[i].request)
    /\ \E s \in {Serve(fs, running[i].request, denied, deep, order)} :
           /\ Cardinality(DOMAIN s.fs) <= MaxNodes
           /\ fs' = s.fs
           /\ running' = [running EXCEPT
                              ![i].phase = "answered",
                              ![i].answers = Append(@, Reply(s.err, s.val,
                                                             Sent(fs, running[i].request,
                                                                  TRUE, s.err)))]
    /\ last' = Pending(running[i], "served")
    /\ MemoryUnchanged
    /\ Untouched

\* the store carries out the request of a handler
StoreActs ==
    \E i \in 1..Len(running) :
        \E deep \in IF DeepMatters(fs, running[i].request) THEN BOOLEAN ELSE {FALSE},
           order \in IF OrderMatters(fs, running[i].request) THEN ListOrders
                     ELSE {ListOrders1} :
            Serves(i, FALSE, deep, order)

\* the store refuses the credentials of the request of a handler
StoreDenies ==
    \E i \in 1..Len(running) :
        /\ Faults(running[i]) < MaxFaults
        /\ Serves(i, TRUE, FALSE, ListOrders1)

\* the answer arrives, and the handler i goes on with the memory it finds
Resume(i) ==
    /\ running[i].phase = "answered"
    /\ Calm \/ Woken(running[i])
    /\ \E frame \in {[running[i] EXCEPT !.mems = Append(@, Found(running[i].op))]} : Goes(i, frame)

Resumes == \E i \in 1..Len(running) : Resume(i)

\* the request of the handler i fails before the store has seen it: the
\* socket fails or, for a request raced against a timer, the timer fires;
\* the handler goes on with the error
FailingWith(i, err) ==
    /\ Calm
    /\ running[i].phase = "sent"
    /\ IsRemote(running[i].request)
    /\ Faults(running[i]) < MaxFaults
    /\ \E frame \in {[running[i] EXCEPT
                          !.answers = Append(@, Reply(err, Unanswered(running[i].request),
                                                      Sent(fs, running[i].request, FALSE,
                                                           err))),
                          !.mems = Append(@, Found(running[i].op))]} : Goes(i, frame)
Failing(i) == FailingWith(i, NetError)

CallFails == \E i \in 1..Len(running) : Failing(i)

\* the socket of the request of a handler fails
SocketFails ==
    \E i \in 1..Len(running), kind \in SocketErrors : FailingWith(i, SocketError(kind))

\* the timer of a request fires
TimerFires == \E i \in 1..Len(running) : running[i].request.timed /\ Failing(i)

\* the user answers the prompt of the handler i, and the handler goes on
Answering(i, choice) ==
    /\ Calm
    /\ running[i].phase = "sent"
    /\ IsPrompt(running[i].request)
    /\ \E frame \in {[running[i] EXCEPT
                          !.answers = Append(@, Reply(NoError, choice,
                                                      Noted("prompt", Root, TRUE))),
                          !.mems = Append(@, Found(running[i].op))]} : Goes(i, frame)

\* the choices of a modal warning
ConfirmAnswers ==
    \E i \in 1..Len(running), choice \in BOOLEAN :
        /\ running[i].request.format = "confirm"
        /\ Answering(i, choice)


\* loadConfig has read the settings
ConfigAnswers ==
    \E i \in 1..Len(running), settings \in SettingsMade :
        /\ running[i].request.format = "config"
        /\ Answering(i, settings)

\* the 30 s timer of connectInternal fires while the connection test of the
\* handler i waits for an answer: the handler goes on with the timeout, and
\* the connection test goes on unheard with the answers it has had
ConnectTimesOut ==
    \E i \in 1..Len(running) :
        /\ Calm
        /\ running[i].op \in {"connect", "autoConnect", "testCreate"}
        /\ running[i].phase = "sent"
        /\ IsRemote(running[i].request)
        /\ Len(running[i].answers) >= 1
        /\ IsPrompt(running[i].answers[1].sent)
        /\ Faults(running[i]) < MaxFaults
        /\ \E frame \in {[running[i] EXCEPT
                              !.answers = Append(@, Reply(RaceLost,
                                                          Unanswered(running[i].request),
                                                          Sent(fs, running[i].request, FALSE,
                                                               RaceLost))),
                              !.mems = Append(@, Found(running[i].op))]},
              test \in {[running[i] EXCEPT
                             !.op = IF running[i].op = "testCreate"
                                    THEN "testClientConnect" ELSE "clientConnect",
                             !.args = [args |-> WithBasePath(running[i].answers[1].val,
                                                             running[i].args.basePath),
                                       id |-> 0, abandoned |-> TRUE],
                             !.answers = Tail(@), !.mems = Tail(@), !.alone = FALSE]} :
               \E r \in {Handle(frame)} :
                   /\ Handle(test).w.blocked
                   /\ Proceeds(Append(running, test), i, frame, r, "resumed")
                   /\ Settles(frame, r)
        /\ UNCHANGED <<fs, attempts, now, pastes, docSteps>>

\* the user enters one of the names in the input box of the handler i, or
\* dismisses the box (the empty name)
Entering(names) ==
    \E i \in 1..Len(running), name \in names :
        /\ running[i].request.format = "input"
        /\ Answering(i, name)

\* the user picks files in the open dialog of the handler i, or dismisses it
Picking(sets) ==
    \E i \in 1..Len(running), files \in sets :
        /\ running[i].request.format = "files"
        /\ Answering(i, files)

\* the user asks to cancel the upload i, whose progress is shown: the
\* number of answers the handler has had by then is kept
CancelRequested ==
    \E i \in 1..Len(running) :
        /\ Calm
        /\ running[i].op = "upload"
        /\ IsRemote(running[i].request)
        /\ running[i].phase \in {"sent", "answered"}
        /\ running[i].args.cancelledAt < 0
        /\ running' = [running EXCEPT ![i].args.cancelledAt = Len(running[i].answers)]
        /\ last' = Pending(running[i], "cancel")
        /\ UNCHANGED fs
        /\ MemoryUnchanged
        /\ Untouched
-----------------------------------------------------------------------------
(* Actions of the tree engine: a handler is called *)

\* the call of a handler leaves the store, the clock and the client's
\* connect guard alone; the calls are counted up to MaxDocSteps
Called(op, args) ==
    /\ Begins(op, args)
    /\ docSteps' = IF docSteps < MaxDocSteps THEN docSteps + 1 ELSE docSteps
    /\ UNCHANGED <<fs, attempts, now>>

\* a call among the first MaxDocSteps
DocCalled(op, args) ==
    /\ docSteps < MaxDocSteps
    /\ Called(op, args)
    /\ UNCHANGED pastes

\* WebDAVTreeDataProvider.connect with the configured base path bp
Connect ==
    \E bp \in BasePaths :
        /\ Called("connect", [basePath |-> bp])
        /\ UNCHANGED pastes

\* the automatic connect, with the configured base path bp
AutoConnect ==
    \E bp \in BasePaths :
        /\ Called("autoConnect", [basePath |-> bp])
        /\ UNCHANGED pastes

\* the command webdav.testCreate, with the configured base path bp
TestCreate ==
    \E bp \in BasePaths :
        /\ Called("testCreate", [basePath |-> bp])
        /\ UNCHANGED pastes

\* the command webdav.debugConnection, with the configured base path bp
DebugConnection ==
    \E bp \in BasePaths :
        /\ Called("debugConnection", [basePath |-> bp])
        /\ UNCHANGED pastes

\* WebDAVTreeDataProvider.disconnect
Disconnect ==
    /\ Called("disconnect", <<>>)
    /\ UNCHANGED pastes

CutItem ==
    \E item \in ShownItems(fs, currentBasePath) \cup StaleItems(fs) :
        /\ pastes < MaxPastes
        /\ Called("cut", [item |-> item])
        /\ UNCHANGED pastes

CopyItem ==
    \E item \in ShownItems(fs, currentBasePath) \cup StaleItems(fs) :
        /\ pastes < MaxPastes
        /\ Called("copy", [item |-> item])
        /\ UNCHANGED pastes

\* whether pasteItem gets past its clipboard checks and issues remote calls
PasteActive == isConnected /\ clipboard.held /\ ~Expired(clipboard, now)

\* WebDAVTreeDataProvider.pasteItem
PasteItem ==
    \E target \in Targets(fs, currentBasePath) :
        /\ PasteActive => pastes < MaxPastes
        /\ Called("paste", [target |-> target])
        /\ pastes' = IF PasteActive THEN pastes + 1 ELSE pastes

\* WebDAVTreeDataProvider.refresh, called by the command webdav.refresh
RefreshTree == DocCalled("refresh", <<>>)

\* WebDAVTreeDataProvider.clearClipboard
ClearClipboard ==
    /\ Called("clear", <<>>)
    /\ UNCHANGED pastes

GetClipboardStatus ==
    /\ Called("status", <<>>)
    /\ UNCHANGED pastes

\* time passes
Tick ==
    \E d \in {1, ExpiryMs} :
        /\ (now + d) \div ExpiryMs <= MaxSpans
        /\ (now + d) % ExpiryMs <= MaxDrift
        /\ now' = now + d
        /\ last' = Idle("tick")
        /\ UNCHANGED <<fs, connectionPromise, calls, attempts, pastes, docSteps, running>>
        /\ MemoryUnchanged

\* no handler is in flight and no connect of the client was made
Quiet ==
    /\ connectionPromise = NoPromise /\ calls = <<>> /\ attempts = 0
    /\ running = <<>>
    /\ orphans = <<>>
    /\ isConnecting = FALSE
    /\ pastes = 0
    /\ docSteps = 0

TreeInit ==
    /\ fs \in InitTrees
    /\ connection = NoConnection
    /\ isConnected = FALSE
    /\ currentBasePath = Root
    /\ clipboard = NoClipboard
    /\ virtualFiles = <<>>
    /\ now = 0
    /\ Quiet
    /\ last = Idle("init")

\* a handler may be called
Free == Len(running) < MaxRunning

\* the steps of the handlers in flight
Turns ==
    \/ StoreActs
    \/ StoreDenies
    \/ CallFails
    \/ Resumes
    \/ ConfirmAnswers
    \/ ConfigAnswers
    \/ ConnectTimesOut

TreeNext ==
    \/ Free /\ Connect
    \/ Free /\ AutoConnect
    \/ Free /\ Disconnect
    \/ Free /\ RefreshTree
    \/ Free /\ CutItem
    \/ Free /\ CopyItem
    \/ Free /\ PasteItem
    \/ Free /\ ClearClipboard
    \/ Free /\ GetClipboardStatus
    \/ Turns

TreeSpec == TreeInit /\ [][TreeNext]_vars


\* the clipboard's expiry: a small store, the provider connected at the
\* root, and time passes, also while a handler waits
TreeSmall ==
    (Root :> Dir) @@ (<<NameA>> :> File(Encode(Text1))) @@ (<<NameB>> :> Dir)
    @@ (<<NameB, NameA>> :> File(Encode(Text2)))

ClipInit ==
    /\ fs = TreeSmall
    /\ connection = Connection(Root)
    /\ isConnected = TRUE
    /\ currentBasePath = Root
    /\ clipboard = NoClipboard
    /\ virtualFiles = <<>>
    /\ now = 0
    /\ Quiet
    /\ last = Idle("init")

ClipNext ==
    \/ Free /\ Disconnect
    \/ Free /\ CutItem
    \/ Free /\ CopyItem
    \/ Free /\ PasteItem
    \/ Free /\ ClearClipboard
    \/ Free /\ GetClipboardStatus
    \/ StoreActs
    \/ StoreDenies
    \/ CallFails
    \/ Resumes
    \/ ConfirmAnswers
    \/ Tick

ClipSpec == ClipInit /\ [][ClipNext]_vars

\* the cut of a directory with two files while time passes
CutTree ==
    (Root :> Dir) @@ (<<NameA>> :> Dir) @@ (<<NameA, NameA>> :> File(Encode(Text1)))
    @@ (<<NameA, NameB>> :> File(Encode(Text2))) @@ (<<NameB>> :> Dir)

CutInit ==
    /\ fs = CutTree
    /\ connection = Connection(Root)
    /\ isConnected = TRUE
    /\ currentBasePath = Root
    /\ clipboard = NoClipboard
    /\ virtualFiles = <<>>
    /\ now = 0
    /\ Quiet
    /\ last = Idle("init")

CutSpec == CutInit /\ [][ClipNext]_vars

-----------------------------------------------------------------------------
(* The listing of one directory, whatever the order the server lists in *)

NameUpperA == <<"A">>
NameUpperB == <<"B">>
NameAB == <<"a", "b">>
NameI == <<"i">>
ListNames == {NameA, NameUpperA, NameB, NameAB, NameUpperB, NameI, NameH}

\* a directory with files a, A, b, ab and .h and directories B and i
ListTree ==
    (Root :> Dir) @@ (<<NameA>> :> File(Encode(Text1))) @@ (<<NameUpperA>> :> File(<<>>))
    @@ (<<NameB>> :> File(<<>>)) @@ (<<NameAB>> :> File(<<>>)) @@ (<<NameUpperB>> :> Dir)
    @@ (<<NameI>> :> Dir) @@ (<<NameH>> :> File(<<>>))

\* the orders in which a server can list the names
RECURSIVE Orders(_)
Orders(S) ==
    IF S = {} THEN {<<>>}
    ELSE UNION {{<<x>> \o o : o \in Orders(S \ {x})} : x \in S}

\* the nodes whose children the view asks for: the nodes of the entries and
\* the node of the connect prompt
ListElements(f, bp) == ShownItems(f, bp) \cup {SpecialItem("connect", Root)}

\* WebDAVTreeDataProvider.getChildren of a node of the view
GetChildren ==
    \E element \in ListElements(fs, currentBasePath) :
        DocCalled("children", [element |-> element])

\* MyWebDAVClient.getDirectoryContents of a directory, of a file and of a
\* path that is absent
GetDirectoryContents ==
    \E p \in {Root, <<NameUpperB>>, <<NameA>>, <<Name404>>} :
        DocCalled("list", [path |-> p])

\* the server lists the names in an order of its own
ListServes ==
    \E i \in 1..Len(running) :
        /\ running[i].phase = "sent"
        /\ \E order \in IF OrderMatters(fs, running[i].request) THEN Orders(ListNames)
                        ELSE {ListOrders1} : Serves(i, FALSE, FALSE, order)

\* the provider is connected or not, and the client holds a session or not;
\* the base path is the root or a path that is absent
ListInit ==
    /\ fs = ListTree
    /\ currentBasePath \in {Root, <<Name404>>}
    /\ connection \in {Connection(currentBasePath), NoConnection}
    /\ isConnected \in BOOLEAN
    /\ clipboard = NoClipboard
    /\ virtualFiles = <<>>
    /\ now = 0
    /\ Quiet
    /\ last = Idle("init")

ListNext ==
    \/ Free /\ RefreshTree
    \/ Free /\ GetChildren
    \/ Free /\ GetDirectoryContents
    \/ ListServes
    \/ StoreDenies
    \/ CallFails
    \/ SocketFails
    \/ Resumes

ListSpec == ListInit /\ [][ListNext]_vars

-----------------------------------------------------------------------------
(* Calls of MyWebDAVClient.connect.  A call made while no connect is in    *)
(* flight runs connectInternal up to the first request of its connection   *)
(* test; the test goes on as the store answers.  When connectInternal ends *)
(* its promise settles; the promise stays in the field until the call that *)
(* started it goes on and runs its finally block, and a call made before   *)
(* that awaits the settled promise.  The 30 s timer may end the race       *)
(* first; the connection test then goes on unheard.                        *)

UrlSlash == <<"http://", "h", Slash>>
UrlJianguoyun == <<"https://", Jianguoyun, Slash, Blank>>
ServerUrls == {ServerUrl, UrlSlash, UrlJianguoyun, UrlNoScheme}

ConnectArgs ==
    {[serverUrl |-> u, username |-> <<"u">>, password |-> <<"p">>, basePath |-> bp] :
        u \in ServerUrls, bp \in {Root, <<NameA>>}}
    \cup {[serverUrl |-> ServerUrl, username |-> <<"u">>, password |-> <<>>,
           basePath |-> Root]}

\* the attempt id of connectInternal with the arguments args
Attempt(args, id) == [args |-> args, id |-> id, abandoned |-> FALSE]

\* a call of connect that finds a promise in the field and awaits it, be
\* the promise pending or settled
Joins(args) ==
    /\ calls' = Append(calls, Call(args, connectionPromise.id, "pending"))
    /\ last' = [Idle("connect") EXCEPT !.args = Attempt(args, connectionPromise.id),
                                       !.outcome = "pending"]
    /\ UNCHANGED <<connectionPromise, attempts, running>>
    /\ MemoryUnchanged

\* a call of connect that starts connectInternal, which runs up to its first
\* request, or to its end when the arguments are refused: the promise it
\* returns is then rejected already; the call awaits the promise
Starts(args) ==
    /\ attempts' = attempts + 1
    /\ \E frame \in {Frame("clientConnect", Attempt(args, attempts + 1))} :
           \E r \in {Handle(frame)} :
               /\ Proceeds(Joined(running), Len(running) + 1, frame, r, "called")
               /\ calls' = Append(calls, Call(args, attempts + 1, "pending"))
               /\ connectionPromise' =
                     PromiseOf(attempts + 1, args,
                               IF r.w.blocked THEN "pending" ELSE r.outcome)

\* MyWebDAVClient.connect, up to its await
ConnectCall ==
    \E args \in ConnectArgs :
        /\ Len(calls) < MaxCalls
        /\ IF ConnectInFlight(connectionPromise) THEN Joins(args) ELSE Starts(args)
        /\ UNCHANGED <<fs, now, pastes, docSteps>>

\* the 30 s timer of connectInternal fires while the connection test is in
\* flight: the catch block drops the session and the promise is rejected
TimesOut ==
    \E i \in 1..Len(running) :
        /\ running[i].op = "clientConnect"
        /\ ~running[i].args.abandoned
        /\ running' = [running EXCEPT ![i].args.abandoned = TRUE]
        /\ connection' = NoConnection
        /\ connectionPromise' = [connectionPromise EXCEPT !.outcome = "timeout"]
        /\ last' = [Pending(running[i], "timedOut") EXCEPT !.outcome = "timeout"]
        /\ UNCHANGED <<fs, calls, attempts, now, pastes, docSteps, isConnected, isConnecting,
                       currentBasePath, clipboard, virtualFiles, orphans>>

\* the promise has settled and the calls that await it go on: the call that
\* started the attempt runs its finally block, which empties the field, and
\* every call that awaited the promise returns its value or throws its error
Releases ==
    /\ Unreleased(connectionPromise)
    /\ calls' = Settle(calls, connectionPromise.id, connectionPromise.outcome)
    /\ connectionPromise' = NoPromise
    /\ last' = [Idle("connect") EXCEPT
                    !.phase = "released",
                    !.args = Attempt(connectionPromise.args, connectionPromise.id),
                    !.outcome = connectionPromise.outcome]
    /\ UNCHANGED <<fs, attempts, now, pastes, docSteps, running>>
    /\ MemoryUnchanged

\* no continuation is queued: a timer or an answer is handled
TaskTurn == ~Unreleased(connectionPromise)

ConnInit ==
    /\ fs = (Root :> Dir)
    /\ connection = NoConnection
    /\ isConnected = FALSE
    /\ currentBasePath = Root
    /\ clipboard = NoClipboard
    /\ virtualFiles = <<>>
    /\ now = 0
    /\ Quiet
    /\ last = Idle("init")

ConnNext ==
    \/ ConnectCall
    \/ Releases
    \/ TaskTurn /\ TimesOut
    \/ TaskTurn /\ StoreActs
    \/ TaskTurn /\ CallFails
    \/ TaskTurn /\ Resumes

ConnSpec == ConnInit /\ [][ConnNext]_vars

-----------------------------------------------------------------------------
(* The overlay on its own: documents are opened, edited, saved and closed  *)
(* against a connected client.                                             *)

DocTree == (Root :> Dir) @@ (<<NameA>> :> File(Encode(Text1)))
\* an existing file, a missing file below a missing directory, and a missing
\* file whose name holds '404'
DocPaths == {<<NameA>>, <<NameB, NameA>>, <<Name404>>}
DocUris == {CreateVirtualFileUri(p, Basename(p)) : p \in DocPaths}
DocTexts == {Text0, Text2}

\* document.getText() of the editor of a tracked document that was not edited
EditorText(files, uri) ==
    IF HasFile(files, uri) THEN {Decode(GetFile(files, uri).content)} ELSE {}

OpenFile ==
    \E webdavPath \in DocPaths :
        DocCalled("open", [webdavPath |-> webdavPath, fileName |-> Basename(webdavPath)])

\* saveFile(uri, document.getText())
SaveFile ==
    \E uri \in DocUris :
        \E content \in DocTexts \cup EditorText(virtualFiles, uri) :
            DocCalled("save", [uri |-> uri, content |-> content])

WriteFile ==
    \E uri \in DocUris, text \in DocTexts, create \in BOOLEAN, overwrite \in BOOLEAN :
        DocCalled("write", [uri |-> uri, content |-> Encode(text), create |-> create,
                            overwrite |-> overwrite])

DeleteDocument == \E uri \in DocUris : DocCalled("delete", [uri |-> uri])

SaveAll == DocCalled("saveAll", <<>>)

CloseAll == DocCalled("closeAll", <<>>)

\* the clock of the documents' times
DocTick ==
    /\ now < MaxDrift
    /\ now' = now + 1
    /\ last' = Idle("tick")
    /\ UNCHANGED <<fs, connectionPromise, calls, attempts, pastes, docSteps, running>>
    /\ MemoryUnchanged

DocInit ==
    /\ fs = DocTree
    /\ connection = Connection(Root)
    /\ isConnected = TRUE
    /\ currentBasePath = Root
    /\ clipboard = NoClipboard
    /\ virtualFiles = <<>>
    /\ now = 0
    /\ Quiet
    /\ last = Idle("init")

DocNext ==
    \/ Free /\ OpenFile
    \/ Free /\ SaveFile
    \/ Free /\ WriteFile
    \/ Free /\ DeleteDocument
    \/ Free /\ SaveAll
    \/ Free /\ CloseAll
    \/ Free /\ Disconnect
    \/ DocTick
    \/ StoreActs
    \/ CallFails
    \/ Resumes

DocSpec == DocInit /\ [][DocNext]_vars

\* the same with the remote file holding any of: a text, bytes that are no
\* UTF-8, a text behind a byte order mark, a text with a stray byte
FileBytes == {Encode(Text1), Bin1, Marked1, <<104, 255>>}
BytesInit ==
    /\ fs \in {(Root :> Dir) @@ (<<NameA>> :> File(bytes)) : bytes \in FileBytes}
    /\ connection = Connection(Root)
    /\ isConnected = TRUE
    /\ currentBasePath = Root
    /\ clipboard = NoClipboard
    /\ virtualFiles = <<>>
    /\ now = 0
    /\ Quiet
    /\ last = Idle("init")

BytesSpec == BytesInit /\ [][DocNext]_vars

-----------------------------------------------------------------------------
(* The overlay with handlers that overlap: a second handler is called      *)
(* while the first waits for the store.                                    *)

\* a handler may be called while another is in flight
Racing == Len(running) < MaxRacing

RaceNext ==
    \/ Racing /\ OpenFile
    \/ Racing /\ SaveFile
    \/ Racing /\ WriteFile
    \/ Racing /\ DeleteDocument
    \/ Racing /\ SaveAll
    \/ Racing /\ CloseAll
    \/ DocTick
    \/ StoreActs
    \/ CallFails
    \/ Resumes

RaceSpec == DocInit /\ [][RaceNext]_vars

-----------------------------------------------------------------------------
(* The tree engine and the overlay side by side: documents are opened and   *)
(* edited, and the tree engine deletes remote paths.                        *)

\* the command webdav.delete passes the selected node, which is the node
\* of an entry or the special node a failed refresh has left in the view
DeleteItem ==
    \E item \in ShownItems(fs, currentBasePath) \cup {SpecialItem("error", Root)} :
        DocCalled("deleteItem", [item |-> item])

SyncNext ==
    \/ Free /\ OpenFile
    \/ Free /\ WriteFile
    \/ Free /\ SaveAll
    \/ Free /\ DeleteItem
    \/ StoreActs
    \/ CallFails
    \/ Resumes
    \/ ConfirmAnswers

SyncSpec == DocInit /\ [][SyncNext]_vars

-----------------------------------------------------------------------------
(* Renaming.  The tree view may show nodes whose entries are gone. *)

RenameTree ==
    (Root :> Dir) @@ (<<NameA>> :> Dir) @@ (<<NameA, NameB>> :> File(Encode(Text1)))
    @@ (<<NameA, NameH>> :> File(Encode(Text2))) @@ (<<NameB>> :> File(Encode(Text2)))
    @@ (<<Name404>> :> File(Bin1))
NewNames == {<<>>, NameA, NameB, Name404}
\* nodes still shown although their entries are gone
RenameStale == {Item(<<NameA, Name404>>, "file"), Item(<<NameB, NameB>>, "file")}

RenameItem ==
    \E item \in ShownItems(fs, currentBasePath) \cup RenameStale :
        /\ pastes < MaxPastes
        /\ Called("rename", [item |-> item])
        /\ pastes' = pastes + 1

RenameInit ==
    /\ fs = RenameTree
    /\ connection = Connection(Root)
    /\ isConnected = TRUE
    /\ currentBasePath = Root
    /\ clipboard = NoClipboard
    /\ virtualFiles = <<>>
    /\ now = 0
    /\ Quiet
    /\ last = Idle("init")

RenameNext ==
    \/ Free /\ RenameItem
    \/ Free /\ Disconnect
    \/ Entering(NewNames)
    \/ StoreActs
    \/ CallFails
    \/ Resumes

RenameSpec == RenameInit /\ [][RenameNext]_vars

-----------------------------------------------------------------------------
(* Creating: createFile, createFolder, uploadFile of the tree engine.  The  *)
(* target is absent, a path string or a node of the tree view; a node may   *)
(* be stale: its entry may be gone or may have changed its kind.            *)

CreateTree ==
    (Root :> Dir) @@ (<<NameA>> :> Dir) @@ (<<NameA, NameB>> :> File(Encode(Text1)))
    @@ (<<NameB>> :> File(Encode(Text2)))
\* nodes below the base path shown as directories: the first is a file on
\* the store by now, the second lies below that file
StaleFolders(bp) ==
    {Item(Append(bp, NameB), "directory"), Item(Append(Append(bp, NameB), NameA), "directory")}
CreateTargets(f, bp) ==
    {NoTarget, StringTarget(Root)}
    \cup {NodeTarget(i) : i \in ShownItems(f, bp) \cup StaleFolders(bp)}
NewFileNames == {<<>>, NameA, NameB}
LocalFile(name, text) == [name |-> name, text |-> text]
UploadSets ==
    {<<>>, <<LocalFile(NameA, Text1)>>, <<LocalFile(NameA, Text1), LocalFile(NameB, Text2)>>}

\* a creating handler is called, at most MaxCreates times
Creating(op, target) ==
    /\ docSteps < MaxCreates
    /\ Called(op, [target |-> target, cancelledAt |-> -1])
    /\ UNCHANGED pastes

CreateFile == \E target \in CreateTargets(fs, currentBasePath) : Creating("createFile", target)

CreateFolder ==
    \E target \in CreateTargets(fs, currentBasePath) : Creating("createFolder", target)

UploadFile == \E target \in CreateTargets(fs, currentBasePath) : Creating("upload", target)

CreateInit ==
    /\ fs = CreateTree
    /\ currentBasePath \in BasePaths
    /\ connection = Connection(currentBasePath)
    /\ isConnected = TRUE
    /\ clipboard = NoClipboard
    /\ virtualFiles = <<>>
    /\ now = 0
    /\ Quiet
    /\ last = Idle("init")

CreateNext ==
    \/ Free /\ CreateFile
    \/ Free /\ CreateFolder
    \/ Free /\ UploadFile
    \/ Entering(NewFileNames)
    \/ Picking(UploadSets)
    \/ CancelRequested
    \/ StoreActs
    \/ CallFails
    \/ Resumes

CreateSpec == CreateInit /\ [][CreateNext]_vars

-----------------------------------------------------------------------------
(* MyWebDAVClient called directly: deleteDirectory, createFile and          *)
(* createDirectory on a store that holds a hidden entry.                    *)

ClientTree ==
    (Root :> Dir) @@ (<<NameA>> :> Dir) @@ (<<NameA, NameB>> :> File(Encode(Text1)))
    @@ (<<NameA, NameH>> :> File(Encode(Text2))) @@ (<<NameB>> :> Dir)
    @@ (<<NameB, NameA>> :> File(Encode(Text2)))
\* '/a/' and '/.h/' are paths with a trailing slash
ClientPaths ==
    {<<NameA>>, <<NameB>>, <<NameA, NameB>>, <<NameA, NameA>>, <<NameB, NameB>>,
     <<NameH, NameA>>, <<NameA, NameB, NameA>>, <<NameA, <<>>>>, <<NameH, <<>>>>}

\* a method of the client is called, at most MaxClientCalls times
ClientCalled(method, p, text) ==
    /\ docSteps < MaxClientCalls
    /\ Called("client", [method |-> method, path |-> p, text |-> text])
    /\ UNCHANGED pastes

\* a call of MyWebDAVClient.deleteDirectory
DeleteDirectory == \E p \in ClientPaths : ClientCalled("deleteDirectory", p, <<>>)

\* a call of MyWebDAVClient.createFile
ClientCreate ==
    \E p \in ClientPaths, text \in {Text0, Text1} : ClientCalled("createFile", p, text)

\* a call of MyWebDAVClient.createDirectory
CreateDirectory == \E p \in ClientPaths : ClientCalled("createDirectory", p, <<>>)

ClientInit ==
    /\ fs = ClientTree
    /\ currentBasePath = Root
    /\ connection = Connection(Root)
    /\ isConnected = TRUE
    /\ clipboard = NoClipboard
    /\ virtualFiles = <<>>
    /\ now = 0
    /\ Quiet
    /\ last = Idle("init")

ClientNext ==
    \/ Free /\ DeleteDirectory
    \/ Free /\ ClientCreate
    \/ Free /\ CreateDirectory
    \/ StoreActs
    \/ CallFails
    \/ Resumes

ClientSpec == ClientInit /\ [][ClientNext]_vars

-----------------------------------------------------------------------------
(* The recursive copy / move of pasteItem on a tree with a grandchild and   *)
(* a child with a hidden name                                              *)

RecursionTree ==
    (Root :> Dir) @@ (<<NameA>> :> Dir) @@ (<<NameA, NameA>> :> Dir)
    @@ (<<NameA, NameA, NameB>> :> File(Encode(Text1)))
    @@ (<<NameA, NameB>> :> File(Encode(Text2))) @@ (<<NameA, NameH>> :> File(Encode(Text1)))
    @@ (<<NameB>> :> Dir)

RecursionInit ==
    /\ fs = RecursionTree
    /\ currentBasePath = Root
    /\ connection = Connection(Root)
    /\ isConnected = TRUE
    /\ clipboard = NoClipboard
    /\ virtualFiles = <<>>
    /\ now = 0
    /\ Quiet
    /\ last = Idle("init")

RecursionNext ==
    \/ Free /\ CutItem
    \/ Free /\ CopyItem
    \/ Free /\ PasteItem
    \/ StoreActs
    \/ CallFails
    \/ Resumes
    \/ ConfirmAnswers

RecursionSpec == RecursionInit /\ [][RecursionNext]_vars

-----------------------------------------------------------------------------
(* The methods of MyWebDAVClient against a store that may never answer.    *)
(* A timer that was set fires in the end, and a handler whose answer has   *)
(* arrived goes on; nothing makes the store answer.                        *)

CallPaths == {<<NameA>>, <<NameA, NameB>>, <<NameB, NameB, NameA>>}
Methods ==
    {"stat", "getDirectoryContents", "getFileContents", "createFile", "createDirectory",
     "deleteFile", "deleteDirectory"}

\* a method of the client is called
CallBegin ==
    \E method \in Methods, p \in CallPaths : ClientCalled(method, p, Text1)

CallNext ==
    \/ Free /\ CallBegin
    \/ StoreActs
    \/ TimerFires
    \/ Resumes

CallLive == ClientInit /\ [][CallNext]_vars /\ WF_vars(TimerFires) /\ WF_vars(Resumes)

-----------------------------------------------------------------------------
(* The tree engine with handlers that overlap *)

\* connected or not
TreeRaceInit ==
    /\ fs = TreeSmall
    /\ isConnected \in BOOLEAN
    /\ connection = IF isConnected THEN Connection(Root) ELSE NoConnection
    /\ currentBasePath = Root
    /\ clipboard = NoClipboard
    /\ virtualFiles = <<>>
    /\ now = 0
    /\ Quiet
    /\ last = Idle("init")

\* one of the first MaxDocSteps calls, made while at most one handler is in
\* flight
Early == Racing /\ docSteps < MaxDocSteps

TreeRaceNext ==
    \/ Early /\ RefreshTree
    \/ Early /\ Connect
    \/ Early /\ AutoConnect
    \/ Early /\ Disconnect
    \/ Early /\ CutItem
    \/ Early /\ CopyItem
    \/ Early /\ PasteItem
    \/ Early /\ ClearClipboard
    \/ StoreActs
    \/ CallFails
    \/ Resumes
    \/ ConfirmAnswers
    \/ ConfigAnswers
    \/ ConnectTimesOut

TreeRaceSpec == TreeRaceInit /\ [][TreeRaceNext]_vars

-----------------------------------------------------------------------------
(* The commands that talk to the server through a client of their own,    *)
(* next to the connect and disconnect of the tree                          *)

DebugInit ==
    /\ fs \in {(Root :> Dir), TreeSmall}
    /\ isConnected \in BOOLEAN
    /\ connection = IF isConnected THEN Connection(Root) ELSE NoConnection
    /\ currentBasePath = Root
    /\ clipboard = NoClipboard
    /\ virtualFiles = <<>>
    /\ now = 0
    /\ Quiet
    /\ last = Idle("init")

DebugNext ==
    \/ Free /\ DebugConnection
    \/ Free /\ TestCreate
    \/ Free /\ Connect
    \/ Free /\ Disconnect
    \/ StoreActs
    \/ StoreDenies
    \/ SocketFails
    \/ Resumes
    \/ ConfigAnswers
    \/ ConnectTimesOut

DebugSpec == DebugInit /\ [][DebugNext]_vars
-----------------------------------------------------------------------------
(* The node of an empty base path as the source of a paste: the store is   *)
(* empty, the node that says so is cut or copied, a folder is created, and *)
(* the clipboard, which holds the base path, is pasted.                     *)

RootInit ==
    /\ fs = (Root :> Dir)
    /\ currentBasePath = Root
    /\ connection = Connection(Root)
    /\ isConnected = TRUE
    /\ clipboard = NoClipboard
    /\ virtualFiles = <<>>
    /\ now = 0
    /\ Quiet
    /\ last = Idle("init")

RootNext ==
    \/ Free /\ CutItem
    \/ Free /\ CopyItem
    \/ Free /\ CreateFolder
    \/ Free /\ PasteItem
    \/ Entering({NameA})
    \/ StoreActs
    \/ CallFails
    \/ Resumes
    \/ ConfirmAnswers

RootSpec == RootInit /\ [][RootNext]_vars


-----------------------------------------------------------------------------
(* PathUtils (src/src/pathUtils.ts).  Here a path is the string the program *)
(* handles: the sequence of its characters.                                 *)

Backslash == "\\"
PathChars == {Slash, Backslash, "a", "b"}

\* .replace(/\\/g, '/')
ReplaceBackslashes(s) == [i \in 1..Len(s) |-> IF s[i] = Backslash THEN Slash ELSE s[i]]

\* a path whose repeated separators are kept
SlashesKept(s) == s
RECURSIVE CollapseSlashes(_)
\* .replace(/\/+/g, '/')
CollapseSlashes(s) ==
    IF Len(s) <= 1 THEN s
    ELSE IF s[1] = Slash /\ s[2] = Slash THEN CollapseSlashes(Tail(s))
    ELSE <<s[1]>> \o CollapseSlashes(Tail(s))

\* .replace(/^\//, '')
StripLeadingSlash(s) == IF Len(s) > 0 /\ s[1] = Slash THEN Tail(s) ELSE s
\* .replace(/\/$/, '')
StripTrailingSlash(s) ==
    IF Len(s) > 0 /\ s[Len(s)] = Slash THEN SubSeq(s, 1, Len(s) - 1) ELSE s

\* the chain of the four replacements
CleanPath(s) ==
    StripTrailingSlash(StripLeadingSlash(CollapseSlashes(ReplaceBackslashes(s))))

\* String.prototype.startsWith
StartsWith(s, prefix) == Len(prefix) <= Len(s) /\ SubSeq(s, 1, Len(prefix)) = prefix

\* PathUtils.normalizeWebDAVPath
NormalizeWebDAVPath(inputPath, basePath) ==
    IF inputPath = <<>> THEN (IF basePath = <<Slash>> THEN <<Slash>> ELSE basePath)
    ELSE IF CleanPath(inputPath) = <<>>
         THEN (IF basePath = <<Slash>> THEN <<Slash>> ELSE StripTrailingSlash(basePath))
    ELSE <<Slash>> \o CleanPath(inputPath)

\* PathUtils.getRelativePathFromBase
GetRelativePathFromBase(fullPath, basePath) ==
    IF CleanPath(basePath) = <<>> \/ CleanPath(basePath) = <<Slash>> THEN CleanPath(fullPath)
    ELSE IF StartsWith(CleanPath(fullPath), CleanPath(basePath) \o <<Slash>>)
         THEN SubSeq(CleanPath(fullPath), Len(CleanPath(basePath)) + 2,
                     Len(CleanPath(fullPath)))
    ELSE IF CleanPath(fullPath) = CleanPath(basePath) THEN <<>>
    ELSE CleanPath(fullPath)

\* the strings of at most n characters
RECURSIVE Strings(_)
Strings(n) ==
    IF n = 0 THEN {<<>>}
    ELSE Strings(n - 1) \cup {Append(s, c) : s \in {x \in Strings(n - 1) : Len(x) = n - 1},
                                             c \in PathChars}

PathObserved(op, fullPath, basePath, relative, normalized, result) ==
    [op |-> op, fullPath |-> fullPath, basePath |-> basePath, relative |-> relative,
     normalized |-> normalized, result |-> result]

PathUnchanged ==
    /\ UNCHANGED <<fs, connectionPromise, calls, attempts, now, pastes, docSteps, running>>
    /\ MemoryUnchanged

\* getRelativePathFromBase(fullPath, basePath)
RelativePath ==
    /\ last.op = "input"
    /\ last' = [last EXCEPT !.op = "relative",
                            !.relative = GetRelativePathFromBase(last.fullPath, last.basePath)]
    /\ PathUnchanged

\* normalizeWebDAVPath(fullPath, basePath), and the relative path of the result
NormalizePath ==
    /\ last.op = "input"
    /\ \E n \in {NormalizeWebDAVPath(last.fullPath, last.basePath)} :
           last' = [last EXCEPT !.op = "normalize",
                                !.relative = GetRelativePathFromBase(last.fullPath,
                                                                     last.basePath),
                                !.normalized = n,
                                !.result = GetRelativePathFromBase(n, last.basePath)]
    /\ PathUnchanged

\* the relative path is normalized against the base path and the path is
\* then taken relative to the result
RoundTrip ==
    /\ last.op = "input"
    /\ \E r \in {GetRelativePathFromBase(last.fullPath, last.basePath)} :
         \E n \in {NormalizeWebDAVPath(r, last.basePath)} :
           last' = [last EXCEPT !.op = "roundTrip", !.relative = r, !.normalized = n,
                                !.result = GetRelativePathFromBase(last.fullPath, n)]
    /\ PathUnchanged

PathInit ==
    /\ fs = (Root :> Dir)
    /\ connection = NoConnection
    /\ isConnected = FALSE
    /\ currentBasePath = Root
    /\ clipboard = NoClipboard
    /\ virtualFiles = <<>>
    /\ now = 0
    /\ Quiet
    /\ last \in {PathObserved("input", f, b, <<>>, <<>>, <<>>) :
                    f \in Strings(MaxPathLen), b \in Strings(MaxBaseLen)}

PathNext ==
    \/ RelativePath
    \/ NormalizePath
    \/ RoundTrip

PathSpec == PathInit /\ [][PathNext]_vars
-----------------------------------------------------------------------------
(* Properties of the tree engine.  A handler that has ended is described   *)
(* by `last`: what it was called with, the store and the memory as they    *)
(* were at its call (before, start), what it did (log, mutated, fetched),  *)
(* and whether no other handler ran between its call and its end (alone).  *)

\* the handler op has ended, no other handler having run meanwhile
EndedAlone(l, op) == l.op = op /\ l.phase = "ended" /\ l.alone
\* the last handler was a paste that got past the clipboard checks
Pasted(l) ==
    /\ l.op = "paste" /\ l.phase = "ended"
    /\ l.outcome \notin {"notConnected", "empty", "expired"}

\* the entries the source path and the destination path of the paste
\* resolve to
Src(l) == Clean(l.val.src)
Dst(l) == Clean(l.val.dst)
\* both paths are written without a doubled or trailing slash
Plain(l) == l.val.src = Src(l) /\ l.val.dst = Dst(l)
\* the destination of the paste lies below its source: the path it resolves
\* to is in the subtree of the source
IntoSubtree(l) == l.val.kind = "directory" /\ Below(Dst(l), Src(l))

\* C1 as stated: a paste whose destination equals the source path, or that
\* puts a directory below itself, returns without any mutating remote call
\* and without a fetch: nothing but stat calls were made
C1_SelfPasteNeverMutates ==
    (Pasted(last) /\ (Dst(last) = Src(last) \/ IntoSubtree(last)))
    => /\ ~last.mutated
       /\ ~last.fetched
       /\ \A i \in 1..Len(last.log) : last.log[i].op = "stat"
       /\ last.alone => fs = last.before
\* the same for every source but the root directory, both paths written
\* without a doubled or trailing slash: the paste ends as rejected
C1_BelowRootNeverMutates ==
    (Pasted(last) /\ last.val.src # Root /\ Plain(last)
     /\ (Dst(last) = Src(last) \/ IntoSubtree(last)))
    => /\ ~last.mutated
       /\ ~last.fetched
       /\ \A i \in 1..Len(last.log) : last.log[i].op = "stat"
       /\ last.outcome \in {"sourceMissing", "selfPaste", "intoSubtree"}
       /\ last.alone => fs = last.before
\* a directory was pasted below itself and the paste was rejected after its stat
C1_Rejected ==
    /\ Pasted(last) /\ IntoSubtree(last)
    /\ last.outcome = "intoSubtree" /\ last.called
\* a self-paste was rejected after its stat
C1_RejectedSelf ==
    Pasted(last) /\ last.val.dst = last.val.src /\ last.outcome = "selfPaste" /\ last.called
\* the root directory was pasted into a directory and the paste issued a
\* mutating call
C1_RootPasted ==
    /\ Pasted(last) /\ last.alone /\ last.val.src = Root /\ IntoSubtree(last)
    /\ last.mutated
\* under a base path that ends in a slash a directory was pasted below
\* itself and the paste issued a mutating call
C1_SlashPasted ==
    /\ Pasted(last) /\ last.alone /\ last.val.src # Root /\ ~Plain(last) /\ IntoSubtree(last)
    /\ last.mutated

\* a paste of a directory that was copied with success
CopiedDirectory(l) ==
    /\ Pasted(l) /\ l.alone /\ l.outcome = "done"
    /\ l.val.operation = "copy" /\ l.val.kind = "directory"

\* C2 as stated: after a successful copy-paste of a directory the destination
\* subtree equals the source subtree, hidden names included, and the source
\* subtree is unchanged
C2_CopyIsExact ==
    CopiedDirectory(last)
    => /\ Subtree(fs, Dst(last)) = Subtree(last.before, Src(last))
       /\ Subtree(fs, Src(last)) = Subtree(last.before, Src(last))
\* the tree f holds the entries of the tree g, each file with the bytes it
\* has in g or, read as text and written back, with the encoding of their
\* decoding
CopyOf(f, g) ==
    /\ DOMAIN f = DOMAIN g
    /\ \A p \in DOMAIN f :
          /\ f[p].kind = g[p].kind
          /\ f[p].content \in {g[p].content, Encode(Decode(g[p].content))}
\* what the copy does achieve when both paths are written without a doubled
\* or trailing slash: the entries with no hidden name on their path below
\* the source arrive, the files that are text with their bytes, and the
\* source subtree is unchanged
C2_CopyOfVisible ==
    (CopiedDirectory(last) /\ Plain(last))
    => /\ CopyOf(Subtree(fs, Dst(last)), VisibleSubtree(last.before, Src(last)))
       /\ Subtree(fs, Src(last)) = Subtree(last.before, Src(last))
\* a file that is no UTF-8 text was copied, and the copy holds other bytes
C2_FileRecoded ==
    /\ Pasted(last) /\ last.alone /\ last.outcome = "done" /\ Plain(last)
    /\ last.val.operation = "copy" /\ last.val.kind = "file"
    /\ fs[Src(last)] = last.before[Src(last)]
    /\ fs[Dst(last)].content # fs[Src(last)].content
\* under a base path that ends in a slash a directory was copied onto
\* itself: the overwrite removed the source, and the paste ended as done
C2_SourceOverwritten ==
    /\ CopiedDirectory(last) /\ ~Plain(last) /\ Dst(last) = Src(last)
    /\ Subtree(fs, Src(last)) # Subtree(last.before, Src(last))

\* a directory with a hidden child was copied; the child did not arrive
C2_HiddenLeftOut ==
    /\ CopiedDirectory(last) /\ Plain(last)
    /\ \E p \in DOMAIN Subtree(last.before, Src(last)) :
          /\ Len(p) = 1 /\ IsHidden(p[1])
          /\ p \notin DOMAIN Subtree(fs, Dst(last))

\* a paste that moved its source with success
Moved(l) == Pasted(l) /\ l.alone /\ l.outcome = "done" /\ l.val.operation = "cut"

\* C3 as stated: after a successful cut-paste nothing remains at or under the
\* source path and the destination holds all that the source subtree held
C3_MoveLosesNothing ==
    Moved(last)
    => /\ \A p \in DOMAIN fs : ~IsPrefix(Src(last), p)
       /\ Subtree(fs, Dst(last)) = Subtree(last.before, Src(last))
\* what the move does achieve when both paths are written without a doubled
\* or trailing slash: the source is gone and the visible entries arrive,
\* the files that are text with their bytes
C3_MoveOfVisible ==
    (Moved(last) /\ Plain(last))
    => /\ \A p \in DOMAIN fs : ~IsPrefix(Src(last), p)
       /\ CopyOf(Subtree(fs, Dst(last)), VisibleSubtree(last.before, Src(last)))

\* a directory with a hidden child was moved; the child is neither at the
\* source nor at the destination
C3_HiddenLost ==
    /\ Moved(last) /\ Plain(last) /\ last.val.kind = "directory"
    /\ \E p \in DOMAIN Subtree(last.before, Src(last)) :
          /\ Len(p) = 1 /\ IsHidden(p[1])
          /\ p \notin DOMAIN Subtree(fs, Dst(last))
          /\ Src(last) \o p \notin DOMAIN fs
\* a file that is no UTF-8 text was moved, and the destination holds other
\* bytes
C3_FileRecoded ==
    /\ Moved(last) /\ Plain(last) /\ last.val.kind = "file"
    /\ fs[Dst(last)].content # last.before[Src(last)].content

\* the handler was called with a cut entry on the clipboard
CutHeld(l) == l.start.clipboard.held /\ l.start.clipboard.operation = "cut"

\* C5 as stated: cutItem mutates nothing, and unless a paste completes every
\* file of a cut source subtree stays in place with its content
C5_OnlyDonePasteRemoves ==
    (last.phase = "ended" /\ last.alone)
    => /\ last.op = "cut" => (fs = last.before /\ ~last.mutated)
       /\ (CutHeld(last) /\ ~(last.op = "paste" /\ last.outcome = "done"))
           => \A p \in DOMAIN last.before :
                (IsPrefix(last.start.clipboard.sourcePath, p) /\ last.before[p].kind = "file")
                => (p \in DOMAIN fs /\ fs[p] = last.before[p])
\* the paste reached its overwrite step (the user confirmed the removal of
\* an existing destination) or its copy / move step
ReachedStep(l) ==
    /\ Pasted(l)
    /\ (l.val.executed \/ (l.val.existing # "none" /\ l.val.confirm))

\* C5: cutItem mutates nothing, and every entry of the cut source subtree
\* (so every file of it) is still present with its content after every
\* handler and every lapse of time, except after a paste that reached its
\* overwrite or copy / move step: a cut that is abandoned, cleared or
\* expired, and a paste that is rejected, declined or fails before that
\* step, leave the source as it was
C5_OnlyExecutingPasteRemoves ==
    (last.phase = "ended" /\ last.alone)
    => /\ last.op = "cut" => (fs = last.before /\ ~last.mutated)
       /\ (CutHeld(last) /\ ~ReachedStep(last))
           => \A p \in DOMAIN last.before :
                IsPrefix(last.start.clipboard.sourcePath, p)
                => (p \in DOMAIN fs /\ fs[p] = last.before[p])
\* a paste of a cut directory failed before its overwrite and copy / move
\* steps: the check of the destination was refused; the source is in place
C5_Witness ==
    /\ Pasted(last) /\ last.alone /\ last.val.operation = "cut"
    /\ last.val.kind = "directory"
    /\ last.outcome = "failed" /\ ~ReachedStep(last)
    /\ Subtree(fs, last.val.src) = Subtree(last.before, last.val.src)
    /\ Cardinality(DOMAIN Subtree(fs, last.val.src)) > 1
\* a paste found the cut entry expired: no call was made, the source is in
\* place
C5_WitnessExpired ==
    /\ last.op = "paste" /\ last.phase = "ended" /\ last.alone
    /\ last.outcome = "expired" /\ CutHeld(last) /\ ~last.called
    /\ last.start.clipboard.sourcePath \in DOMAIN fs
\* a paste of a cut entry was declined at the overwrite prompt; the entry is
\* still held and its source in place
C5_WitnessDeclined ==
    /\ Pasted(last) /\ last.val.operation = "cut" /\ last.outcome = "declined"
    /\ clipboard.held /\ clipboard.operation = "cut" /\ clipboard.sourcePath \in DOMAIN fs

\* C19 as stated: a cut or a copy of an item whose path is absent from the
\* store never leaves the clipboard holding that item
C19_AbsentNeverHeld ==
    ((EndedAlone(last, "cut") \/ EndedAlone(last, "copy"))
     /\ Clean(last.args.item.path) \notin DOMAIN last.before)
    => ~(clipboard.held /\ clipboard.sourcePath = last.args.item.path)
\* the cut half: a cut of an absent item leaves the clipboard empty
C19_AbsentCutClears ==
    (EndedAlone(last, "cut") /\ Clean(last.args.item.path) \notin DOMAIN last.before
     /\ last.outcome = "missing")
    => clipboard = NoClipboard

\* the writes of a log to the path p
WritesTo(log, p) == {i \in 1..Len(log) : log[i].op \in {"put", "mkdir"} /\ log[i].path = p}

\* C20: when the destination of a paste exists, nothing on the store changes
\* and no mutating call is issued unless the user confirms the overwrite; a
\* declined overwrite also leaves the clipboard as it was; and the copy /
\* move step is entered only after a confirmed overwrite has removed the
\* destination: its write to the destination finds nothing there
C20_OverwriteOnlyConfirmed ==
    (Pasted(last) /\ last.alone /\ last.val.existing # "none")
    => /\ ~last.val.confirm => (~last.mutated /\ fs = last.before /\ ~last.val.executed)
       /\ last.outcome = "declined"
           => (~last.val.confirm /\ ~last.mutated /\ fs = last.before
               /\ clipboard = last.start.clipboard)
       /\ last.val.executed
           => /\ last.val.confirm
              /\ \A i \in WritesTo(last.log, Dst(last)) :
                    /\ last.log[i].kind = "none"
                    /\ \E j \in 1..(i - 1) :
                          last.log[j].op = "delete" /\ last.log[j].path = Dst(last)
\* a file was pasted over an existing directory after the user confirmed
C20_Witness ==
    /\ Pasted(last) /\ last.alone /\ last.val.existing = "directory" /\ last.val.kind = "file"
    /\ last.val.confirm /\ last.val.executed /\ last.outcome = "done"
    /\ Dst(last) \in DOMAIN fs /\ fs[Dst(last)].kind = "file"
\* the user declined to overwrite an existing destination
C20_WitnessDeclined ==
    /\ Pasted(last) /\ last.val.existing # "none" /\ ~last.val.confirm
    /\ last.outcome = "declined" /\ last.called /\ clipboard.held

-----------------------------------------------------------------------------
(* Properties of the clipboard around a paste *)

\* the clipboard entry is older than ten minutes
Stale(cb, t) == cb.held /\ t - cb.timestamp > 10 * 60 * 1000

\* C4 as stated: a paste attempted after the entry expired issues no remote
\* call and leaves the clipboard empty; getClipboardStatus reports empty and
\* clears the entry
C4_ExpiredPasteClears ==
    /\ (last.op = "paste" /\ last.phase = "ended"
        /\ Stale(last.start.clipboard, last.start.now))
        => (~last.called /\ ~clipboard.held)
    /\ (last.op = "status" /\ last.phase = "ended"
        /\ Stale(last.start.clipboard, last.start.now))
        => (last.outcome = "null" /\ ~clipboard.held)
\* C4: a paste attempted after the entry expired issues no remote call and
\* changes nothing in the store; it leaves the clipboard empty when the engine
\* is connected and leaves it as it was when the engine is not connected;
\* getClipboardStatus reports empty and clears the entry; a paste of the
\* connected engine at the ten minutes or before is acted on
C4_ExpiredPasteRejected ==
    /\ (last.op = "paste" /\ last.phase = "ended"
        /\ Stale(last.start.clipboard, last.start.now))
        => /\ ~last.called
           /\ last.log = <<>>
           /\ fs = last.before
           /\ clipboard = IF last.start.isConnected THEN NoClipboard
                          ELSE last.start.clipboard
    /\ (last.op = "status" /\ last.phase = "ended"
        /\ Stale(last.start.clipboard, last.start.now))
        => (last.outcome = "null" /\ ~clipboard.held)
    /\ (last.op = "paste" /\ last.phase = "ended" /\ last.start.clipboard.held
        /\ last.start.isConnected /\ last.start.connection.connected
        /\ last.start.now - last.start.clipboard.timestamp <= 10 * 60 * 1000)
        => last.called
\* an expired entry was rejected by a paste of the connected engine
C4_Witness ==
    /\ last.op = "paste" /\ last.phase = "ended" /\ last.outcome = "expired"
    /\ last.val.operation # "none"
    /\ ~clipboard.held /\ isConnected /\ now > ExpiryMs
\* a paste at the ten minutes exactly was acted on
C4_WitnessAtLimit ==
    /\ Pasted(last) /\ last.called /\ last.outcome = "done"
    /\ last.start.now - last.start.clipboard.timestamp = ExpiryMs

\* C18 as stated: a paste that reached its copy / move step leaves the
\* clipboard empty when the entry was a cut, and leaves the entry in place
\* when it was a copy, whether the step succeeded or failed
C18_CopySurvivesPaste ==
    (Pasted(last) /\ last.alone /\ last.val.executed)
    => /\ last.val.operation = "cut" => clipboard = NoClipboard
       /\ last.val.operation = "copy" => clipboard = last.start.clipboard
\* C18: a paste that reached its copy / move step leaves the clipboard empty
\* when the entry was a cut, whether the step succeeded or failed; a copy
\* entry is left in place by a failed step, and by a successful one unless
\* the entry has expired by the time the step is over, in which case the
\* clipboard is empty
C18_CopySurvivesUnlessExpired ==
    (Pasted(last) /\ last.alone /\ last.val.executed)
    => /\ last.val.operation = "cut" => clipboard = NoClipboard
       /\ last.val.operation = "copy"
           => clipboard = IF last.outcome = "done"
                             /\ Stale(last.start.clipboard, last.val.doneAt)
                          THEN NoClipboard ELSE last.start.clipboard
\* a copy entry was pasted with success just before its expiry, and is gone
C18_Witness ==
    /\ Pasted(last) /\ last.alone /\ last.val.executed /\ last.val.operation = "copy"
    /\ last.outcome = "done" /\ last.val.dst \in DOMAIN fs
    /\ last.start.now <= ExpiryMs /\ last.val.doneAt > ExpiryMs /\ clipboard = NoClipboard
\* a move failed and the clipboard is empty
C18_WitnessCutFailed ==
    /\ Pasted(last) /\ last.alone /\ last.val.executed /\ last.val.operation = "cut"
    /\ last.outcome = "failed" /\ clipboard = NoClipboard

-----------------------------------------------------------------------------
(* Properties of the recursive copy / move *)

\* the position of the first call of the copy / move step of a directory
\* paste (the creation of the destination), 0 when the step was not entered
FirstOfStep(log) ==
    IF \E i \in 1..Len(log) : log[i].op = "mkdir"
    THEN CHOOSE i \in 1..Len(log) :
             log[i].op = "mkdir" /\ \A j \in 1..(i - 1) : log[j].op # "mkdir"
    ELSE 0
\* the child p was processed without error before position j of the log
ProcessedBefore(log, p, j) ==
    \E i \in 1..(j - 1) : log[i].op = "child" /\ log[i].path = p /\ log[i].answered

\* a paste of a directory that reached its copy / move step
PastedDirectory(l) == Pasted(l) /\ l.alone /\ l.val.kind = "directory" /\ l.val.executed

\* the source directory of the move was deleted at position j of the log
SourceDeleted(l, j) ==
    /\ l.log[j].op = "delete" /\ l.log[j].path = l.val.src
    /\ l.log[j].answered /\ l.log[j].status = -1

\* C26 as stated: in the paste of a directory, once the processing of a
\* child has failed no later sibling is processed, no source directory is
\* deleted and the paste reports the failure; and the move deletes the
\* source directory only after every one of its children, whatever its
\* name, was processed without error
C26_EveryChildProcessed ==
    PastedDirectory(last)
    => /\ \A i \in 1..Len(last.log) :
            (last.log[i].op = "child" /\ ~last.log[i].answered)
            => /\ last.outcome = "failed"
               /\ \A j \in (i + 1)..Len(last.log) :
                    /\ last.log[j].op = "child"
                    /\ ~last.log[j].answered
                    /\ Below(last.log[i].path, last.log[j].path)
       /\ \A j \in (FirstOfStep(last.log) + 1)..Len(last.log) :
            SourceDeleted(last, j)
            => /\ last.val.operation = "cut"
               /\ \A n \in ChildNames(last.before, last.val.src) :
                    ProcessedBefore(last.log, Append(last.val.src, n), j)
\* a move deleted its source directory, whose child with a hidden name was
\* never processed and is nowhere on the store
C26_HiddenChildLost ==
    /\ PastedDirectory(last) /\ last.val.operation = "cut" /\ last.outcome = "done"
    /\ \E n \in ChildNames(last.before, last.val.src) :
          /\ IsHidden(n)
          /\ \A i \in 1..Len(last.log) : last.log[i].path # Append(last.val.src, n)
          /\ Append(last.val.src, n) \notin DOMAIN fs
          /\ Append(last.val.dst, n) \notin DOMAIN fs

\* the error handling of the recursion: in the paste of a directory, once
\* the processing of a child has failed nothing more is done but to pass the
\* error up (no later sibling is processed, no call is issued, no source
\* directory is deleted) and the paste reports the failure; the move deletes
\* the source directory only after every child its listing showed was
\* processed without error
C26_ChildFailureAborts ==
    PastedDirectory(last)
    => /\ \A i \in 1..Len(last.log) :
            (last.log[i].op = "child" /\ ~last.log[i].answered)
            => /\ last.outcome = "failed"
               /\ \A j \in (i + 1)..Len(last.log) :
                    /\ last.log[j].op = "child"
                    /\ ~last.log[j].answered
                    /\ Below(last.log[i].path, last.log[j].path)
       /\ \A j \in (FirstOfStep(last.log) + 1)..Len(last.log) :
            (last.log[j].op = "delete" /\ last.log[j].path = last.val.src)
            => /\ last.val.operation = "cut"
               /\ \A n \in ListedNames(last.before, last.val.src) :
                    ProcessedBefore(last.log, Append(last.val.src, n), j)

\* a move of a directory with two children whose first child failed in a
\* grandchild: the second child was not processed, the source is in place
C26_Witness ==
    /\ PastedDirectory(last)
    /\ last.val.operation = "cut"
    /\ last.outcome = "failed"
    /\ Cardinality(ListedNames(last.before, last.val.src)) = 2
    /\ \E i \in 1..Len(last.log) :
         /\ last.log[i].op = "child" /\ ~last.log[i].answered
         /\ Len(last.log[i].path) = Len(last.val.src) + 2
    /\ \E n \in ListedNames(last.before, last.val.src) :
         \A i \in 1..Len(last.log) :
            last.log[i].op = "child" => last.log[i].path # Append(last.val.src, n)
    /\ last.val.src \in DOMAIN fs

\* a move that went through: the source directory was deleted after both
\* children were processed
C26_WitnessMoved ==
    /\ PastedDirectory(last)
    /\ last.val.operation = "cut"
    /\ last.outcome = "done"
    /\ Cardinality(ListedNames(last.before, last.val.src)) = 2
    /\ \E j \in 1..Len(last.log) :
          last.log[j].op = "delete" /\ last.log[j].path = last.val.src
    /\ last.val.src \notin DOMAIN fs

-----------------------------------------------------------------------------
(* Properties of the overlay *)

\* the tracked documents with unsaved edits, in the order of the Map
DirtyFiles(files) == SelectSeq(files, LAMBDA e : e.file.isDirty)
InSeq(x, seq) == \E i \in 1..Len(seq) : seq[i] = x

\* the handle an overlay handler was called for
UriOf(l) == l.val.uri
\* the documents the overlay tracked when the handler was called
TrackedAtCall(l) == l.start.virtualFiles

\* C6 as stated: an open of a document that is already tracked does not fetch
\* from the remote store and leaves the document's content and dirty flag
C6_ReopenKeepsDocument ==
    (EndedAlone(last, "open") /\ HasFile(TrackedAtCall(last), UriOf(last)))
    => /\ ~last.fetched
       /\ HasFile(virtualFiles, UriOf(last))
       /\ GetFile(virtualFiles, UriOf(last)).content =
              GetFile(TrackedAtCall(last), UriOf(last)).content
       /\ GetFile(virtualFiles, UriOf(last)).isDirty =
              GetFile(TrackedAtCall(last), UriOf(last)).isDirty
\* two opens of one (remotePath, displayName) give one handle: every open
\* registers its document under the handle of its path and name, once
C6_OneHandle ==
    (EndedAlone(last, "open") /\ last.outcome = "ok")
    => /\ UriOf(last) = CreateVirtualFileUri(last.args.webdavPath, last.args.fileName)
       /\ HasFile(virtualFiles, UriOf(last))
       /\ GetFile(virtualFiles, UriOf(last)).webdavPath = last.args.webdavPath
       /\ Len(virtualFiles) = Len(TrackedAtCall(last))
                              + (IF HasFile(TrackedAtCall(last), UriOf(last)) THEN 0 ELSE 1)

\* the fetch of an open that has ended
Fetch(l) == l.log[1]
\* the fetch had no answer, or an answer with an error status other than 404
OtherFetchError(l) == ~Fetch(l).answered \/ Fetch(l).status \notin {-1, 404}

\* C7 as stated: an open of a path the store answers 404 for succeeds and
\* registers a clean document with empty content; any other fetch error is
\* propagated and registers no document
C7_MissingOpensEmpty ==
    (EndedAlone(last, "open") /\ Len(last.log) = 1)
    => /\ (Fetch(last).answered /\ Fetch(last).status = 404)
           => /\ last.outcome = "ok"
              /\ HasFile(virtualFiles, UriOf(last))
              /\ GetFile(virtualFiles, UriOf(last)).content = <<>>
              /\ ~GetFile(virtualFiles, UriOf(last)).isDirty
       /\ OtherFetchError(last)
           => (last.outcome = "error" /\ virtualFiles = TrackedAtCall(last))
\* what an open of a missing path does: it succeeds with an empty clean
\* document exactly when the text of the path holds '404', and fails
\* otherwise; any other fetch error is propagated and registers no document
C7_MissingOpensByName ==
    (EndedAlone(last, "open") /\ Len(last.log) = 1)
    => /\ (Fetch(last).answered /\ Fetch(last).status = 404)
           => IF Mentions404(last.args.webdavPath)
              THEN /\ last.outcome = "ok"
                   /\ GetFile(virtualFiles, UriOf(last)).content = <<>>
                   /\ ~GetFile(virtualFiles, UriOf(last)).isDirty
              ELSE last.outcome = "error" /\ virtualFiles = TrackedAtCall(last)
       /\ OtherFetchError(last)
           => (last.outcome = "error" /\ virtualFiles = TrackedAtCall(last))

\* a saveFile of a tracked document has ended
SavedTracked(l) == EndedAlone(l, "save") /\ HasFile(TrackedAtCall(l), UriOf(l))

\* C8 as stated: a saveFile whose remote write fails propagates the error and
\* leaves the document dirty with its content, size and mtime; one that
\* succeeds leaves it clean and the remote content equal to the saved content
C8_FailedSaveStaysDirty ==
    SavedTracked(last)
    => IF last.outcome = "error"
       THEN GetFile(virtualFiles, UriOf(last))
                = [GetFile(TrackedAtCall(last), UriOf(last)) EXCEPT !.isDirty = TRUE]
       ELSE /\ ~GetFile(virtualFiles, UriOf(last)).isDirty
            /\ UriOf(last).authority \in DOMAIN fs
            /\ fs[UriOf(last).authority] = File(Encode(last.args.content))
\* what a failed saveFile does: the document is left exactly as it was
C8_FailedSaveChangesNothing ==
    SavedTracked(last)
    => IF last.outcome = "error"
       THEN GetFile(virtualFiles, UriOf(last)) = GetFile(TrackedAtCall(last), UriOf(last))
       ELSE /\ ~GetFile(virtualFiles, UriOf(last)).isDirty
            /\ UriOf(last).authority \in DOMAIN fs
            /\ fs[UriOf(last).authority] = File(Encode(last.args.content))

\* the document of the handle was opened from an existing remote file, the
\* save follows the open directly, and the text saved is the text of its
\* editor
SavesOpened(l) ==
    /\ SavedTracked(l)
    /\ l.afterOpen
    /\ ~GetFile(TrackedAtCall(l), UriOf(l)).isDirty
    /\ UriOf(l).authority \in DOMAIN l.before
    /\ l.args.content = Decode(GetFile(TrackedAtCall(l), UriOf(l)).content)

\* C13 as stated: a saveFile of the unedited text of a document opened from
\* an existing remote file, whatever its bytes, leaves the content at the
\* path identical to what was there when it was fetched, and the document
\* clean
C13_OpenSaveKeepsRemote ==
    (SavesOpened(last) /\ last.outcome = "ok")
    => /\ fs[UriOf(last).authority] = last.before[UriOf(last).authority]
       /\ ~GetFile(virtualFiles, UriOf(last)).isDirty
\* what the save does leave: the encoding of the decoding of the bytes that
\* were fetched, which is these bytes when they are the encoding of a text
\* that starts with no byte order mark; the document is clean
C13_OpenSaveRecodes ==
    (SavesOpened(last) /\ last.outcome = "ok")
    => /\ fs[UriOf(last).authority]
             = File(Encode(Decode(last.before[UriOf(last).authority].content)))
       /\ IsText(last.before[UriOf(last).authority].content) => fs = last.before
       /\ \A p \in DOMAIN fs \cup DOMAIN last.before :
             p # UriOf(last).authority => (p \in DOMAIN fs /\ p \in DOMAIN last.before
                                          /\ fs[p] = last.before[p])
       /\ ~GetFile(virtualFiles, UriOf(last)).isDirty
\* an opened text file was saved at once with its text and the save
\* succeeded: the remote bytes are those fetched
C13_Witness ==
    /\ SavesOpened(last) /\ last.outcome = "ok" /\ last.mutated
    /\ last.args.content = Text1
    /\ last.before[UriOf(last).authority] = File(Encode(Text1))
    /\ fs[UriOf(last).authority] = File(Encode(Text1))
    /\ ~GetFile(virtualFiles, UriOf(last)).isDirty
\* a file that starts with a byte order mark was opened and saved at once:
\* the remote file has lost the mark
C13_WitnessMark ==
    /\ SavesOpened(last) /\ last.outcome = "ok"
    /\ last.before[UriOf(last).authority] = File(Marked1)
    /\ fs[UriOf(last).authority] = File(Encode(Text1))
\* a file that is no UTF-8 text was opened and saved at once: the remote
\* file holds the encoding of the replacement character
C13_WitnessBinary ==
    /\ SavesOpened(last) /\ last.outcome = "ok"
    /\ last.before[UriOf(last).authority] = File(Bin1)
    /\ fs[UriOf(last).authority] = File(Encode(<<Replacement>>))

\* C9: saveAll calls the client's write once for every document that is dirty
\* at the call, in the order of the Map, and for no other document; success +
\* fail is the number of dirty documents; a written document ends clean with
\* the store holding its content, and every other document is left as it was
\* (a failed one dirty, a clean one clean)
C9_SaveAllAccounts ==
    EndedAlone(last, "saveAll")
    => /\ last.val.attempts = [i \in 1..Len(DirtyFiles(TrackedAtCall(last))) |->
                                   DirtyFiles(TrackedAtCall(last))[i].uri]
       /\ last.val.success + last.val.fail = Len(DirtyFiles(TrackedAtCall(last)))
       /\ last.val.success = Len(last.val.saved)
       /\ Len(virtualFiles) = Len(TrackedAtCall(last))
       /\ \A i \in 1..Len(TrackedAtCall(last)) :
             /\ virtualFiles[i].uri = TrackedAtCall(last)[i].uri
             /\ IF InSeq(TrackedAtCall(last)[i].uri, last.val.saved)
                THEN /\ TrackedAtCall(last)[i].file.isDirty
                     /\ virtualFiles[i].file =
                            [TrackedAtCall(last)[i].file EXCEPT
                                 !.isDirty = FALSE, !.mtime = virtualFiles[i].file.mtime]
                     /\ virtualFiles[i].file.mtime \in last.start.now..now
                     /\ fs[virtualFiles[i].file.webdavPath] = File(virtualFiles[i].file.content)
                ELSE virtualFiles[i].file = TrackedAtCall(last)[i].file
\* a saveAll wrote a document after it had failed to write an earlier one
C9_Witness ==
    /\ EndedAlone(last, "saveAll") /\ last.val.fail >= 1 /\ last.val.success >= 1
    /\ last.val.saved[1] # last.val.attempts[1]
    /\ \E i \in 1..Len(virtualFiles) : virtualFiles[i].file.isDirty
    /\ \E i \in 1..Len(virtualFiles) : ~virtualFiles[i].file.isDirty

\* C10: closeAll leaves no tracked document and issues no remote call; the
\* store is the same before and after
C10_CloseAllOnlyForgets ==
    (last.op = "closeAll" /\ last.phase = "ended")
    => (virtualFiles = <<>> /\ ~last.called /\ ~last.mutated /\ last.log = <<>>
        /\ fs = last.before)
\* a closeAll dropped a document with unsaved edits
C10_Witness ==
    /\ last.op = "closeAll" /\ last.phase = "ended" /\ last.val.dirtyClosed > 0
    /\ virtualFiles = <<>>

\* C15 as stated: after the tree engine removed a remote path the overlay
\* tracks no document at or under that path
C15_RemovedPathsUntracked ==
    (EndedAlone(last, "deleteItem") /\ last.outcome = "done")
    => \A i \in 1..Len(virtualFiles) :
         ~IsPrefix(last.args.item.path, virtualFiles[i].file.webdavPath)

\* the content the store holds at the path p, none when there is no file
RemoteContent(f, p) == IF p \in DOMAIN f THEN f[p].content ELSE <<>>

\* C29 as stated, its last part: when no handler is in flight, a document
\* that is not dirty holds what the store holds at its path, which is what
\* the overlay last fetched from or wrote to the store
C29_EditSurvivesSave ==
    running = <<>>
    => \A i \in 1..Len(virtualFiles) :
         ~virtualFiles[i].file.isDirty
         => virtualFiles[i].file.content = RemoteContent(fs, virtualFiles[i].file.webdavPath)

-----------------------------------------------------------------------------
(* Properties of MyWebDAVClient.connect *)

\* the calls that await the promise id
Awaiting(cs, id) == {i \in 1..Len(cs) : cs[i].awaits = id}
\* the calls that settle in the step
Settling == {i \in 1..Len(calls') :
                calls'[i].outcome # "pending" /\ (i > Len(calls) \/ calls[i].outcome = "pending")}
\* connect is called in the step
ConnectIsCalled == Len(calls') = Len(calls) + 1
\* the promise in the field settles in the step: connectInternal ends
PromiseSettles ==
    /\ connectionPromise'.id # 0
    /\ connectionPromise'.outcome # "pending"
    /\ connectionPromise # connectionPromise'

\* C11: a connect called while the promise of an earlier connect is in the
\* field starts no connectInternal and awaits that promise; the promise
\* settles once, with the outcome of connectInternal; when the finally block
\* of connect empties the field, every call that awaited the promise settles
\* with its one outcome, and no call settles otherwise; a connect called
\* with the field empty starts an attempt
C11_SingleFlight ==
    [][/\ (ConnectIsCalled /\ connectionPromise # NoPromise)
           => /\ attempts' = attempts
              /\ running' = running
              /\ connectionPromise' = connectionPromise
              /\ connection' = connection /\ fs' = fs
              /\ calls'[Len(calls')].awaits = connectionPromise.id
              /\ calls'[Len(calls')].outcome = "pending"
              /\ \A i \in 1..Len(calls) : calls'[i] = calls[i]
       /\ attempts' # attempts => (connectionPromise = NoPromise /\ attempts' = attempts + 1)
       /\ (connectionPromise # NoPromise /\ connectionPromise' # connectionPromise)
           => \/ /\ connectionPromise.outcome = "pending"
                 /\ connectionPromise' = [connectionPromise EXCEPT !.outcome = last'.outcome]
                 /\ last'.outcome # "pending"
                 /\ calls' = calls
              \/ /\ connectionPromise.outcome # "pending"
                 /\ connectionPromise' = NoPromise
                 /\ Settling = Awaiting(calls, connectionPromise.id)
                 /\ \A i \in Settling : calls'[i].outcome = connectionPromise.outcome
                 /\ \A i \in (1..Len(calls)) \ Settling : calls'[i] = calls[i]
       /\ Settling # {} => (connectionPromise # NoPromise /\ connectionPromise' = NoPromise)
       /\ (ConnectIsCalled /\ connectionPromise = NoPromise)
           => /\ attempts' = attempts + 1
              /\ calls'[Len(calls')].awaits = attempts + 1
              /\ calls'[Len(calls')].outcome = "pending"
              /\ connectionPromise'.id = attempts + 1
              /\ connectionPromise'.args = calls'[Len(calls')].args
              /\ connectionPromise'.outcome = last'.outcome]_vars
\* two calls awaited one attempt and settled with its outcome, and a later
\* call started a second attempt
C11_Witness ==
    /\ Len(calls) >= 3
    /\ calls[1].awaits = 1 /\ calls[2].awaits = 1 /\ calls[3].awaits = 2
    /\ calls[1].args # calls[2].args
    /\ calls[1].outcome = "true" /\ calls[2].outcome = "true"
    /\ attempts = 2
\* a call with good arguments awaited the promise of a call whose arguments
\* were refused, before the finally block of that call ran, and was rejected
\* with its error
C11_WitnessRejected ==
    /\ Len(calls) >= 2
    /\ ValidateConnect(calls[1].args) = "scheme" /\ ValidateConnect(calls[2].args) = "ok"
    /\ calls[2].awaits = 1 /\ calls[1].outcome = "scheme" /\ calls[2].outcome = "scheme"
    /\ attempts = 1 /\ connectionPromise = NoPromise

\* C12 as stated: when a connect settles with true the client holds the
\* session of that call's server address (cleaned) and base path; when it
\* settles with an error the client holds no session
C12_SessionOfTheCall ==
    [][\A i \in Settling :
          IF calls'[i].outcome = "true"
          THEN connection' = Session(CleanServerUrl(calls'[i].args.serverUrl),
                                     calls'[i].args.basePath)
          ELSE connection' = NoConnection]_vars
\* the arguments of the attempt whose promise is in the field after the step
AttemptArgs == connectionPromise'.args
\* C12: when an attempt ends with true the client holds, in place of any
\* earlier session, the session of the cleaned server address and the base
\* path the attempt was started with (the arguments of the call that started
\* it, not those of a call that joined it); when it ends with an error, the
\* client holds no session; the session is left as it was in every other
\* step, so that the calls that awaited the attempt find that session when
\* they settle
C12_SessionOfTheAttempt ==
    [][/\ IF PromiseSettles
          THEN IF connectionPromise'.outcome = "true"
               THEN /\ connection' = Session(CleanServerUrl(AttemptArgs.serverUrl),
                                             AttemptArgs.basePath)
                    /\ connection'.connected
                    /\ \/ connection'.serverUrl = <<>>
                       \/ connection'.serverUrl[Len(connection'.serverUrl)]
                              \notin {Slash, Blank}
               ELSE connection' = NoConnection
          ELSE connection' = connection
       /\ \A i \in Settling :
             /\ calls'[i].outcome = connectionPromise.outcome
             /\ IF calls'[i].outcome = "true"
                THEN connection' = Session(CleanServerUrl(connectionPromise.args.serverUrl),
                                           connectionPromise.args.basePath)
                ELSE connection' = NoConnection]_vars
\* a connect replaced the session of one server by the session of another,
\* whose address was given with a trailing slash
C12_Witness ==
    /\ last.op = "connect" /\ last.phase = "released" /\ last.outcome = "true"
    /\ last.args.args.serverUrl = UrlSlash
    /\ connection = Session(ServerUrl, last.args.args.basePath)
    /\ \E i \in 1..Len(calls) :
          calls[i].outcome = "true" /\ calls[i].args.serverUrl = UrlJianguoyun
    /\ \E i \in 1..Len(calls) :
          calls[i].outcome = "true" /\ calls[i].args.serverUrl = UrlSlash
\* a connect timed out, its calls were rejected and the client holds no
\* session
C12_WitnessTimeout ==
    /\ last.phase = "released" /\ last.outcome = "timeout" /\ connection = NoConnection
    /\ \E i \in 1..Len(calls) : calls[i].outcome = "timeout"
\* a connect with refused arguments dropped the session of an earlier
\* connect
C12_WitnessRefused ==
    /\ last.phase = "released" /\ last.outcome \in {"empty", "scheme"}
    /\ connection = NoConnection
    /\ \E i \in 1..Len(calls) : calls[i].outcome = "true"
-----------------------------------------------------------------------------
(* Properties of renameItem *)

\* a rename got to the check of its new path: the name entered and the path
\* it gives
Renamed(l) ==
    /\ EndedAlone(l, "rename")
    /\ l.outcome \notin {"notConnected", "cancelled"}
NewName(l) == l.answers[1].val
NewPath(l) == JoinPath(Dirname(l.args.item.path), NewName(l))

\* C21 as stated: a rename whose new path exists on the store issues no
\* mutating call and changes nothing, and ends with the naming conflict
\* (or with the error of the probe when the probe itself failed)
C21_RenameNeverOverwrites ==
    (Renamed(last) /\ NewPath(last) \in DOMAIN last.before)
    => /\ last.outcome \in {"conflict", "failed"}
       /\ ~last.mutated
       /\ fs = last.before
\* what the rename does for the new names that do not hold '404'
C21_RenameOfPlainNames ==
    (Renamed(last) /\ NewPath(last) \in DOMAIN last.before
     /\ ~Mentions404(<<NewName(last)>>))
    => /\ last.outcome \in {"conflict", "failed"}
       /\ ~last.mutated
       /\ fs = last.before

\* C30 as stated, for the move made by a rename: when the source file is
\* not on the store (so that it cannot be read), nothing is written, the
\* store is left as it was and the operation fails
C30_UnreadableSourceWritesNothing ==
    (Renamed(last) /\ last.args.item.type = "file"
     /\ last.args.item.path \notin DOMAIN last.before /\ last.outcome # "conflict")
    => /\ last.outcome = "failed"
       /\ ~last.mutated
       /\ fs = last.before
\* what the move does for the source paths that do not hold '404'
C30_PlainSourceWritesNothing ==
    (Renamed(last) /\ last.args.item.type = "file"
     /\ last.args.item.path \notin DOMAIN last.before /\ last.outcome # "conflict"
     /\ ~Mentions404(last.args.item.path))
    => /\ last.outcome = "failed"
       /\ ~last.mutated
       /\ fs = last.before

-----------------------------------------------------------------------------
(* Properties of createFile, createFolder, uploadFile *)

\* the parent path the resolution rule gives
RuleParent(target, bp) ==
    IF (IF ~target.given THEN bp
        ELSE IF target.type = "file" THEN Dirname(target.path)
        ELSE target.path) = Root /\ bp # Root
    THEN bp
    ELSE IF ~target.given THEN bp
    ELSE IF target.type = "file" THEN Dirname(target.path)
    ELSE target.path

\* a creating handler got to its remote calls
Created(l) ==
    /\ l.phase = "ended" /\ l.alone
    /\ l.op \in {"createFile", "createFolder", "upload"}
    /\ l.outcome \notin {"notConnected", "cancelled"}
\* the creates among the calls of a log
Creates(log) == {i \in 1..Len(log) : log[i].op \in {"put", "mkdir"}}

\* C22 as stated: create-file, create-folder and upload resolve the parent by
\* the same rule (a directory node gives its path, a file node its parent
\* directory, no target the base path, the root gives way to a base path
\* that is not the root): a file is put into the directory the rule's path
\* resolves to; and with a base path that is not the root no create is
\* issued directly under the root or beneath the path of a file node
C22_ParentResolvedByRule ==
    Created(last)
    => \A i \in Creates(last.log) :
         /\ last.log[i].op = "put"
             => Dirname(last.log[i].path)
                    = Clean(RuleParent(last.args.target, last.start.currentBasePath))
         /\ last.start.currentBasePath # Root => Len(last.log[i].path) # 1
         /\ (last.args.target.given /\ last.args.target.type = "file")
             => ~Below(last.log[i].path, Clean(last.args.target.path))
\* the same for createFile and createFolder alone
C22_CreateResolvedByRule ==
    (Created(last) /\ last.op # "upload")
    => \A i \in Creates(last.log) :
         /\ last.log[i].op = "put"
             => Dirname(last.log[i].path)
                    = Clean(RuleParent(last.args.target, last.start.currentBasePath))
         /\ last.start.currentBasePath # Root => Len(last.log[i].path) # 1
         /\ (last.args.target.given /\ last.args.target.type = "file")
             => ~Below(last.log[i].path, Clean(last.args.target.path))

\* C23 as stated: createFile and createFolder issue no create (put, mkdir)
\* for a path one of whose ancestors is a file on the store at that moment
C23_NoCreateUnderFile ==
    (Created(last) /\ last.op # "upload")
    => \A i \in Creates(last.log) : ~last.log[i].underFile

\* the puts of an upload whose answer came after the user asked to cancel:
\* the put that was in flight at the request and those started after it
PutsAfterCancel(l) ==
    {k \in 1..Len(l.answers) : l.answers[k].sent.op = "put" /\ k > l.args.cancelledAt}

\* C28 as stated, for the batch upload: once the user has asked to cancel,
\* no further file is started, so at most the put in flight is answered
\* after the request
C28_NothingStartedAfterCancel ==
    (Created(last) /\ last.op = "upload" /\ last.args.cancelledAt >= 0)
    => Cardinality(PutsAfterCancel(last)) <= 1

-----------------------------------------------------------------------------
(* Properties of MyWebDAVClient *)

\* a method of the client has ended
ClientEnded(l, method) == EndedAlone(l, "client") /\ l.args.method = method
\* the deletes among the calls of a log
Deletes(log) == SelectSeq(log, LAMBDA e : e.op = "delete")

\* C24 as stated: deleteDirectory(p) deletes every child before it removes
\* p, so every delete it issues is for a file or an empty directory; when it
\* returns normally nothing is left at or under p; when it fails the store
\* holds the entries it held before less the deleted ones, each unchanged
C24_DeletesOnlyEmptied ==
    ClientEnded(last, "deleteDirectory")
    => /\ \A i \in 1..Len(Deletes(last.log)) : Deletes(last.log)[i].empty
       /\ last.outcome = "ok" => \A q \in DOMAIN fs : ~IsPrefix(last.args.path, q)
       /\ \A q \in DOMAIN fs : q \in DOMAIN last.before /\ fs[q] = last.before[q]
\* the other two parts of the claim
C24_NoRollback ==
    ClientEnded(last, "deleteDirectory")
    => /\ last.outcome = "ok" => \A q \in DOMAIN fs : ~IsPrefix(last.args.path, q)
       /\ \A q \in DOMAIN fs : q \in DOMAIN last.before /\ fs[q] = last.before[q]

\* C25 as stated: when createFile issues the put for a path, the parent of
\* the path exists on the store at that moment
C25_PutUnderExistingParent ==
    ClientEnded(last, "createFile")
    => \A i \in 1..Len(last.log) :
         last.log[i].op = "put" => last.log[i].parent # "none"
\* the same when every call of the method was answered
C25_AnsweredPutUnderParent ==
    (ClientEnded(last, "createFile") /\ \A i \in 1..Len(last.log) : last.log[i].answered)
    => \A i \in 1..Len(last.log) :
         last.log[i].op = "put" => last.log[i].parent # "none"

-----------------------------------------------------------------------------
(* Properties of the remote calls *)

\* C27 as stated: every method of the client that has issued a remote call
\* returns to its caller in the end, although the remote store may never
\* answer
C27_EveryCallReturns == (running # <<>>) ~> (running = <<>>)
\* the methods whose every remote call is raced against a timer return
C27_TimedMethodsReturn ==
    (running # <<>>
     /\ running[1].args.method \in {"stat", "getDirectoryContents", "getFileContents"})
    ~> (running = <<>>)
\* a timeout is never reported as success
C27_TimeoutIsAnError ==
    (last.op = "client" /\ last.phase = "ended"
     /\ \E i \in 1..Len(last.log) : ~last.log[i].answered /\ last.log[i].op # "stat")
    => (last.outcome = "error" /\ last.val.timeout)

-----------------------------------------------------------------------------
(* Properties of the listing *)

LowerCase == ("A" :> "a" @@ "B" :> "b")
Lower(c) == IF c \in DOMAIN LowerCase THEN LowerCase[c] ELSE c
Alphabet == <<".", "0", "4", "a", "b", "c", "h", "i", "t">>
Rank(c) == CHOOSE k \in 1..Len(Alphabet) : Alphabet[k] = Lower(c)
RECURSIVE NameLeq(_, _)
\* a is not after b in the case-insensitive order of names
NameLeq(a, b) ==
    IF Len(a) = 0 THEN TRUE
    ELSE IF Len(b) = 0 THEN FALSE
    ELSE IF Rank(Head(a)) # Rank(Head(b)) THEN Rank(Head(a)) < Rank(Head(b))
    ELSE NameLeq(Tail(a), Tail(b))

\* a listing was returned, to getChildren of a directory node or to refresh:
\* the directory listed, the items, and the names as the server listed them
Listed(l) ==
    /\ l.op \in {"children", "refresh"} /\ l.phase = "ended" /\ l.outcome = "listed"
ListedPath(l) == IF l.op = "children" THEN l.args.element.path ELSE l.start.currentBasePath
Items(l) == l.val
ServerOrder(l) == [i \in 1..Len(l.answers[1].val) |-> l.answers[1].val[i].basename]

\* a listing was returned by MyWebDAVClient.getDirectoryContents
Returned(l) == l.op = "list" /\ l.phase = "ended" /\ l.outcome = "returned"
\* the kinds and the names of a listing that was returned, by the tree or by
\* the client
Kinds(l) == [i \in 1..Len(l.val) |-> l.val[i].type]
Labels(l) ==
    [i \in 1..Len(l.val) |-> IF l.op = "list" THEN l.val[i].basename ELSE l.val[i].label]

\* C14 as stated: every listing returned for a directory, by getChildren and
\* refresh of the tree and by getDirectoryContents of the client, has all
\* directories before all files and, within a kind, the names in their
\* case-insensitive order
C14_EveryListingOrdered ==
    (Listed(last) \/ Returned(last))
    => \A i, j \in 1..Len(last.val) :
          i < j => /\ Kinds(last)[i] = "directory" \/ Kinds(last)[j] = "file"
                   /\ Kinds(last)[i] = Kinds(last)[j]
                       => NameLeq(Labels(last)[i], Labels(last)[j])
\* what getDirectoryContents of the client returns: the entries in the order
\* of the server's answer, the hidden names left out
C14_ClientKeepsServerOrder ==
    Returned(last)
    => Labels(last) = SelectSeq(ServerOrder(last), LAMBDA n : ~IsHidden(n))
\* the client returned the listing of a directory with a file before a
\* directory
C14_WitnessClient ==
    /\ Returned(last) /\ Len(last.val) = 6
    /\ Kinds(last)[1] = "file" /\ Kinds(last)[6] = "directory"
    /\ Labels(last)[1] = NameB /\ Labels(last)[2] = NameUpperA

\* the listings of the tree: a listing returned by getChildren or refresh
\* holds the entries of the directory that are not hidden, each once, all directories before all files and,
\* within a kind, in the case-insensitive order of the names, whatever the
\* order of the underlying listing
C14_ListingOrdered ==
    Listed(last)
    => /\ \A i, j \in 1..Len(Items(last)) :
            i < j => /\ Items(last)[i].type = "directory" \/ Items(last)[j].type = "file"
                     /\ Items(last)[i].type = Items(last)[j].type
                         => NameLeq(Items(last)[i].label, Items(last)[j].label)
                     /\ Items(last)[i].label # Items(last)[j].label
       /\ {Items(last)[i].label : i \in 1..Len(Items(last))}
              = ListedNames(last.before, ListedPath(last))
       /\ \A i \in 1..Len(Items(last)) :
            /\ Items(last)[i].path = JoinPath(ListedPath(last), Items(last)[i].label)
            /\ Items(last)[i].type = last.before[Items(last)[i].path].kind
\* the server listed b, A, a first and the directories last, and the listing
\* returned the directories first
C14_Witness ==
    /\ Listed(last) /\ last.op = "refresh"
    /\ Len(last.answers) = 1 /\ Len(ServerOrder(last)) = 7
    /\ SubSeq(ServerOrder(last), 1, 3) = <<NameB, NameUpperA, NameA>>
    /\ SubSeq(ServerOrder(last), 6, 7) = <<NameI, NameUpperB>>
    /\ Len(Items(last)) = 6
    /\ Items(last)[1].label = NameUpperB /\ Items(last)[2].label = NameI
    /\ Items(last)[3].label = NameUpperA /\ Items(last)[4].label = NameA
    /\ Items(last)[6].label = NameB

-----------------------------------------------------------------------------
(* Properties of PathUtils *)

\* an absolute path in normal form: the root, or segments each led by one
\* separator, with no trailing separator
ValidPath(p) ==
    \/ p = <<Slash>>
    \/ /\ Len(p) > 1 /\ p[1] = Slash /\ p[Len(p)] # Slash
       /\ \A i \in 1..Len(p) : p[i] # Backslash
       /\ \A i \in 1..(Len(p) - 1) : ~(p[i] = Slash /\ p[i + 1] = Slash)
\* a base path and a path that is the base path or lies below it
ValidPair(full, base) ==
    /\ ValidPath(full) /\ ValidPath(base)
    /\ \/ full = base
       \/ StartsWith(full, IF base = <<Slash>> THEN base ELSE base \o <<Slash>>)

\* C16 as stated, for two paths in normal form: relativeTo returns '/' when
\* the path equals the base path, the remainder with its leading separator
\* when the path starts with the base path and a separator, and the path
\* unchanged otherwise
C16_RelativeToAsSpecified ==
    (last.op = "relative" /\ ValidPath(last.fullPath) /\ ValidPath(last.basePath))
    => last.relative =
         IF last.fullPath = last.basePath THEN <<Slash>>
         ELSE IF StartsWith(last.fullPath, last.basePath \o <<Slash>>)
              THEN SubSeq(last.fullPath, Len(last.basePath) + 1, Len(last.fullPath))
         ELSE last.fullPath

\* C17 as stated: for a valid pair the relative path, normalized against the
\* base path and used as the base of the same path, gives the relative path
\* again; normalize returns no repeated and no trailing separator but the
\* root's, and the base path when its input resolves to empty
C17_RoundTrip ==
    (last.op = "roundTrip" /\ ValidPair(last.fullPath, last.basePath))
    => /\ last.result = last.relative
       /\ ValidPath(last.normalized)
       /\ CleanPath(last.relative) = <<>> => last.normalized = last.basePath
\* C17: the relative path of a path does not change when the path is
\* normalized first, whatever the two strings; the round trip as stated holds
\* when the path is the base path; for a base path in normal form, normalize
\* returns a path in normal form (no repeated separator, no trailing
\* separator but the root's), which is the base path when its input resolves
\* to empty
C17_NormalizeStable ==
    /\ last.op = "normalize"
        => /\ last.result = last.relative
           /\ ValidPath(last.basePath)
               => /\ ValidPath(last.normalized)
                  /\ CleanPath(last.fullPath) = <<>> => last.normalized = last.basePath
    /\ (last.op = "roundTrip" /\ ValidPair(last.fullPath, last.basePath)
        /\ last.fullPath = last.basePath)
        => last.result = last.relative
    /\ (last.op = "roundTrip" /\ ValidPath(last.basePath))
        => /\ ValidPath(last.normalized)
           /\ CleanPath(last.relative) = <<>> => last.normalized = last.basePath
\* a path with a repeated and a trailing separator was normalized against /a
C17_Witness ==
    /\ last.op = "normalize"
    /\ last.fullPath = <<Slash, Slash, "b", Slash>> /\ last.basePath = <<Slash, "a">>
    /\ last.normalized = <<Slash, "b">> /\ last.result = <<"b">>

=============================================================================
